---- MODULE Spec2Model ----
(***************************************************************************)
(* Alert detection and lifecycle engine of the monitoring service:         *)
(*   - scheduler.py   TaskScheduler._check_alerts   (the evaluation cycle) *)
(*   - keyword_engine.py  extract_alert_keywords    (the matcher)          *)
(*   - alert_system.py    AlertSystem               (rules, alerts, cache) *)
(*   - api.py             the admin handlers that call AlertSystem         *)
(*   - database.py        the document store the cycle reads               *)
(*                                                                         *)
(* Strings are sequences of one-character strings, so that substring and   *)
(* wildcard matching and the construction of alert ids are computed.       *)
(* Optional values are sequences of length at most one.  Times are in      *)
(* minutes.  The program is an asyncio program.  JobStep is the job from   *)
(* one awaited store call to the next; Spec runs every operation from its  *)
(* start to its end, SpecAsync lets the job and the admin handlers         *)
(* interleave at their awaits.                                             *)
(***************************************************************************)
EXTENDS Integers, Sequences, FiniteSets, TLC

\* ------------------------------------------------------------------ bounds
\* The clock advances in steps of 60 minutes, MaxTicks times at most.
MaxTicks == 1
\* Documents the collector stores.
MaxNews == 2
\* resolve_alert is no longer requested for an alert reactivated this often.
MaxReactivations == 1
\* Rule-management requests the admin sends.
MaxRuleOps == 1

\* ----------------------------------------------------------------- values
None == << >>
Some(x) == << x >>

\* dict.get(key, default)
DictGet(d, key, default) == IF key \in DOMAIN d THEN d[key] ELSE default

\* str.lower() on the characters the model uses
LowerChar(c) ==
  CASE c = "A" -> "a"
    [] c = "B" -> "b"
    [] c = "C" -> "c"
    [] OTHER -> c

Lower(s) == [n \in 1..Len(s) |-> LowerChar(s[n])]

\* Python's `a in b` on strings
Contains(text, sub) ==
  \E n \in 0..(Len(text) - Len(sub)) : SubSeq(text, n + 1, n + Len(sub)) = sub

\* str.replace(old, new) for a one-character old
RECURSIVE Replace(_, _, _)
Replace(s, old, new) ==
  IF s = << >> THEN << >>
  ELSE (IF Head(s) = old THEN new ELSE << Head(s) >>) \o Replace(Tail(s), old, new)

HasWildcard(pattern) ==
  \E n \in 1..Len(pattern) : pattern[n] \in {"*", "?"}

\* pattern.replace("*", ".*").replace("?", ".")
WildcardRegex(pattern) ==
  Replace(Replace(pattern, "*", << ".", "*" >>), "?", << "." >>)

\* One regular-expression atom against one character, re.IGNORECASE; "." does
\* not match a newline.
AtomMatches(atom, c) ==
  IF atom = "." THEN c # "\n" ELSE LowerChar(atom) = LowerChar(c)

\* The regular expression from position p on matches text from position t on
\* (a prefix of it): literals, "." and the postfix "*".
RECURSIVE ReMatchAt(_, _, _, _)
ReMatchAt(re, p, text, t) ==
  IF p > Len(re) THEN TRUE
  ELSE IF p + 1 <= Len(re) /\ re[p + 1] = "*"
    THEN \E n \in 0..(Len(text) - t + 1) :
           /\ \A m \in 0..(n - 1) : AtomMatches(re[p], text[t + m])
           /\ ReMatchAt(re, p + 2, text, t + n)
    ELSE /\ t <= Len(text)
         /\ AtomMatches(re[p], text[t])
         /\ ReMatchAt(re, p + 1, text, t + 1)

\* re.match: anchored at the start of the text
ReMatch(re, text) == ReMatchAt(re, 1, text, 1)

\* re.search: at any position
ReSearch(re, text) == \E t \in 1..(Len(text) + 1) : ReMatchAt(re, 1, text, t)

\* KeywordAnalysisEngine._match_keyword_pattern
_match_keyword_pattern(text, pattern) ==
  IF HasWildcard(pattern)
  THEN ReSearch(WildcardRegex(pattern), text)
  ELSE Contains(Lower(text), Lower(pattern))

\* AlertSystem._match_keyword
_match_keyword(keyword, target_keywords) ==
  \E n \in 1..Len(target_keywords) :
    LET target == target_keywords[n] IN
    IF HasWildcard(target)
    THEN ReMatch(WildcardRegex(target), keyword)
    ELSE Contains(Lower(keyword), Lower(target))

\* ------------------------------------------------------- the inputs drawn
\* Documents the collector delivers (title, content).
NewsItems ==
  { [title |-> << "a", "b" >>, content |-> << >>],
    [title |-> << "A" >>, content |-> << "b", "c" >>] }

\* Rule ids: the API derives one from the wall clock to the second, and the
\* default rules carry fixed ones.
RuleIds == { << "r", "1" >>, << "r", "2" >> }

\* Bodies of the rule requests of the admin surface (AlertRuleRequest).
RuleRequests ==
  { [name |-> "n1", alert_type |-> "keyword", level |-> "high", enabled |-> TRUE,
     conditions |-> [keywords |-> << << "a", "b" >> >>,
                     threshold |-> 2, time_window |-> 60]],
    [name |-> "n2", alert_type |-> "keyword", level |-> "low", enabled |-> TRUE,
     conditions |-> [keywords |-> << << "a", "b" >> >>,
                     threshold |-> 1, time_window |-> 30]],
    [name |-> "n3", alert_type |-> "keyword", level |-> "medium", enabled |-> TRUE,
     conditions |-> [keywords |-> << << "a", "*" >>, << "b", "c" >> >>,
                     threshold |-> 1, time_window |-> 60]],
    [name |-> "n4", alert_type |-> "keyword", level |-> "high", enabled |-> FALSE,
     conditions |-> [keywords |-> << << "a", "b" >> >>,
                     threshold |-> 1, time_window |-> 60]],
    [name |-> "n5", alert_type |-> "volume", level |-> "low", enabled |-> TRUE,
     conditions |-> [threshold |-> 1]] }

\* AlertRule(...) as the handlers build it
AlertRule(id, req, created_at) ==
  [id |-> id, name |-> req.name, alert_type |-> req.alert_type,
   level |-> req.level, enabled |-> req.enabled,
   conditions |-> req.conditions, created_at |-> created_at]

\* ------------------------------------------------------ the document store
\* f"{title} {content}"
ItemText(item) == item.title \o << " " >> \o item.content

RECURSIVE Reverse(_)
Reverse(s) == IF s = << >> THEN << >> ELSE Reverse(Tail(s)) \o << Head(s) >>

\* x placed behind every element whose created_at is not older than its own
RECURSIVE InsertDesc(_, _)
InsertDesc(x, s) ==
  IF s = << >> THEN << x >>
  ELSE IF Head(s).created_at >= x.created_at
    THEN << Head(s) >> \o InsertDesc(x, Tail(s))
    ELSE << x >> \o s

\* .sort("created_at", DESCENDING); among equal timestamps (the model's clock is
\* coarser than the program's) the document stored later comes first.
RECURSIVE StableDesc(_)
StableDesc(s) ==
  IF s = << >> THEN << >>
  ELSE InsertDesc(s[Len(s)], StableDesc(SubSeq(s, 1, Len(s) - 1)))

SortCreatedDesc(coll) == StableDesc(Reverse(coll))

\* DatabaseManager.get_data_for_alert_analysis
get_data_for_alert_analysis(coll, time_window, current_time) ==
  LET start_time == current_time - time_window
      InWindow(d) == d.created_at >= start_time /\ d.created_at <= current_time
  IN SortCreatedDesc(SelectSeq(coll, InWindow))

\* ------------------------------------------------------------ the matcher
\* The targets hit, in the order the two nested loops of
\* extract_alert_keywords meet them (one entry per keyword_counts[...] += 1).
RECURSIVE HitSeq(_, _, _, _)
HitSeq(filtered, targets, n, t) ==
  IF n > Len(filtered) THEN << >>
  ELSE IF t > Len(targets) THEN HitSeq(filtered, targets, n + 1, 1)
  ELSE (IF _match_keyword_pattern(Lower(ItemText(filtered[n])), targets[t])
        THEN << targets[t] >> ELSE << >>)
       \o HitSeq(filtered, targets, n, t + 1)

\* The keys of a dict filled in this order
RECURSIVE FirstOccurrences(_)
FirstOccurrences(s) ==
  IF s = << >> THEN << >>
  ELSE LET front == SubSeq(s, 1, Len(s) - 1)
           keys == FirstOccurrences(front)
       IN IF \E n \in 1..Len(front) : front[n] = s[Len(s)]
          THEN keys ELSE Append(keys, s[Len(s)])

Occurrences(s, x) == Cardinality({n \in 1..Len(s) : s[n] = x})

\* KeywordAnalysisEngine.extract_alert_keywords: AlertKeywordResult.matched_keywords
extract_alert_keywords(data, target_keywords, time_window, current_time) ==
  IF data = << >> \/ target_keywords = << >> THEN << >>
  ELSE
    LET time_threshold == current_time - time_window
        InWindow(d) == d.created_at >= time_threshold
        filtered_data == SelectSeq(data, InWindow)
        hits == HitSeq(filtered_data, target_keywords, 1, 1)
        keys == FirstOccurrences(hits)
    IN [n \in 1..Len(keys) |->
          [word |-> keys[n], count |-> Occurrences(hits, keys[n])]]

\* An alert id that also carries the time of the alert.
AlertIdWithTime(rule_id, keyword) == rule_id \o << "_" >> \o keyword \o << "_", "t" >>

\* ------------------------------------------------------ the alert records
\* f"{rule.id}_{keyword}"
AlertId(rule_id, keyword) == rule_id \o << "_" >> \o keyword

\* Alert(...) of _check_keyword_rule; the texts of title and message are kept
\* as the tuple of what they are formatted from.
NewAlert(rule, keyword, count, threshold, time_window, t) ==
  [id |-> AlertId(rule.id, keyword),
   rule_id |-> rule.id,
   rule_name |-> rule.name,
   alert_type |-> rule.alert_type,
   level |-> rule.level,
   status |-> "active",
   title |-> << "keyword alert", keyword >>,
   message |-> << "created", keyword, count, threshold >>,
   data |-> [keyword |-> keyword, count |-> count, threshold |-> threshold,
             time_window |-> time_window, reactivation_count |-> 0,
             created_at |-> t, last_updated |-> None],
   triggered_at |-> t,
   resolved_at |-> None]

\* ------------------------------------------------ the store's collections
\* A collection is the sequence of its documents in insertion order.
IdsOf(coll) == {coll[n].id : n \in 1..Len(coll)}

Matching(coll, id) == {n \in 1..Len(coll) : coll[n].id = id}

FirstMatch(coll, id) == CHOOSE n \in Matching(coll, id) : \A m \in Matching(coll, id) : n <= m

\* collection.find_one({"id": id})
find_one(coll, id) ==
  IF Matching(coll, id) = {} THEN None ELSE Some(coll[FirstMatch(coll, id)])

\* collection.update_one({"id": id}, update): the first matching document
update_one(coll, id, Update(_)) ==
  IF Matching(coll, id) = {} THEN coll
  ELSE [coll EXCEPT ![FirstMatch(coll, id)] = Update(@)]

\* A collection without the unique index on "id": no insert is refused.
NoUniqueIndex(coll, doc) == FALSE

\* create_index("id", unique=True): an insert of a present id is refused
DuplicateKey(coll, doc) == doc.id \in IdsOf(coll)

\* collection.insert_one(doc)
insert_one(coll, doc) == IF DuplicateKey(coll, doc) THEN coll ELSE Append(coll, doc)

\* collection.replace_one({"id": id}, doc)
replace_one(coll, id, doc) ==
  LET Put(old) == doc IN update_one(coll, id, Put)

\* collection.delete_one({"id": id})
delete_one(coll, id) ==
  IF Matching(coll, id) = {} THEN coll
  ELSE LET n == FirstMatch(coll, id)
       IN SubSeq(coll, 1, n - 1) \o SubSeq(coll, n + 1, Len(coll))

\* A resolve_alert that sets the status and forgets resolved_at.
SetResolvedStatusOnly(t, doc) == [doc EXCEPT !.status = "resolved"]

\* The $set of resolve_alert
SetResolved(t, doc) == [doc EXCEPT !.status = "resolved", !.resolved_at = Some(t)]

\* An update that writes the new threshold but leaves the recorded count alone.
SetUpdatedKeepsCount(count, threshold, time_window, t, doc) ==
  [doc EXCEPT !.message = << "updated", count, threshold >>,
              !.data.threshold = threshold,
              !.data.time_window = time_window,
              !.data.last_updated = Some(t),
              !.triggered_at = t]

\* The $set of _update_existing_alert
SetUpdated(count, threshold, time_window, t, doc) ==
  [doc EXCEPT !.message = << "updated", count, threshold >>,
              !.data.count = count,
              !.data.threshold = threshold,
              !.data.time_window = time_window,
              !.data.last_updated = Some(t),
              !.triggered_at = t]

\* A reactivation whose update forgets the $inc of reactivation_count.
SetReactivatedNoCount(count, threshold, time_window, t, doc) ==
  [doc EXCEPT !.status = "active",
              !.message = << "reactivated", count, threshold >>,
              !.data.count = count,
              !.data.threshold = threshold,
              !.data.time_window = time_window,
              !.data.last_updated = Some(t),
              !.triggered_at = t,
              !.resolved_at = None]

\* The $set and $inc of _reactivate_alert
SetReactivated(count, threshold, time_window, t, doc) ==
  [doc EXCEPT !.status = "active",
              !.message = << "reactivated", count, threshold >>,
              !.data.count = count,
              !.data.threshold = threshold,
              !.data.time_window = time_window,
              !.data.last_updated = Some(t),
              !.triggered_at = t,
              !.resolved_at = None,
              !.data.reactivation_count = @ + 1]

\* A memory dict that ignores the assignment self.rules[rule.id] = rule.
DictPutIgnored(d, rule) == d

\* -------------------------------------------------- the in-memory maps
\* self.rules: a dict keeps insertion order; assigning a present key keeps its place.
DictPut(d, rule) ==
  IF rule.id \in IdsOf(d) THEN replace_one(d, rule.id, rule) ELSE Append(d, rule)

\* self.active_alerts: id -> Alert
CachePut(cache, alert) ==
  [id \in (DOMAIN cache) \cup {alert.id} |->
     IF id = alert.id THEN alert ELSE cache[id]]

CacheDel(cache, id) == [x \in (DOMAIN cache) \ {id} |-> cache[x]]

EmptyCache == [x \in {} |-> x]

\* ------------------------------------------------------------- the state
VARIABLES
  now,               \* the wall clock, in minutes
  news,              \* today's document collection (database.py)
  rules_collection,  \* database["alert_rules"]
  alerts_collection, \* database["alerts"]
  rules,             \* AlertSystem.rules
  active_alerts,     \* AlertSystem.active_alerts
  job,               \* the alert-check job: where it is, and its local variables
  api,               \* the admin request being served, or its response
  rule_ops,          \* how many rule-management requests were served
  scheduler,         \* self.scheduler: the state of the check_alerts job in it
  engine_call        \* a call of the keyword engine: its arguments and its result

vars == << now, news, rules_collection, alerts_collection, rules, active_alerts,
           job, api, rule_ops, scheduler, engine_call >>

Req(name) == CHOOSE q \in RuleRequests : q.name = name

\* Rule stores the process may find when it starts.
InitialRuleStores ==
  { << AlertRule(<< "r", "1" >>, Req("n1"), 0), AlertRule(<< "r", "2" >>, Req("n2"), 0) >>,
    << AlertRule(<< "r", "1" >>, Req("n4"), 0) >> }

\* An alert id no alert carries.
UnknownAlertId == << "x" >>

\* AlertSystem.load_rules: find({"enabled": True}) into the empty dict
load_rules(coll) ==
  LET Enabled(doc) == doc.enabled IN SelectSeq(coll, Enabled)

\* AlertSystem.get_rules: find().sort("created_at", -1)
get_rules(coll) == SortCreatedDesc(coll)

IdleJob ==
  [pc |-> "idle", data |-> << >>, rules |-> << >>, matched |-> << >>, i |-> 0, j |-> 0,
   k |-> 0, used |-> 0, cur |-> None, doc |-> None, raising |-> 0]

\* No call of the keyword engine is under study.
IdleCall == [op |-> "none", args |-> << >>, result |-> None]

\* The check_alerts job in the scheduler: how many instances of it are running
\* (the executor counts them), whether its next run time has come, and how
\* many of its runs the scheduler has skipped.
IdleScheduler == [instances |-> 0, due |-> FALSE, skipped |-> 0]

\* add_job(self._check_alerts, ..., max_instances=1, coalesce=True)
max_instances == 1

\* An executor with no limit on the running instances of a job.
NoInstanceLimit(instances) == FALSE

\* The executor refuses to start a run of the job while max_instances run.
MaxInstancesReached(instances) == instances >= max_instances

IdleApi ==
  [pc |-> "idle", op |-> "none", alert_id |-> None, rule |-> None, rule_id |-> None,
   result |-> "none"]

\* The response of a handler, kept until the next operation starts: the
\* operation and its outcome, "success" (200, success: true) or "error" (every
\* HTTPException a handler raises inside its try, the 404 of update_alert_rule
\* included, is caught by its own except Exception and answered as a 500).
Respond(request, result) == [IdleApi EXCEPT !.op = request.op, !.result = result]

\* After AlertSystem.init(): no alerts yet, the enabled rules loaded.
Init ==
  /\ now = 0
  /\ news = << >>
  /\ rules_collection \in InitialRuleStores
  /\ alerts_collection = << >>
  /\ rules = load_rules(rules_collection)
  /\ active_alerts = EmptyCache
  /\ job = IdleJob
  /\ api = IdleApi
  /\ rule_ops = 0
  /\ scheduler = IdleScheduler
  /\ engine_call = IdleCall

\* ------------------------------------------------- the evaluation cycle
\* The code of _check_alerts, check_keyword_alerts and _check_keyword_rule that
\* runs without awaiting the store: from position (i, j, k) - stored rule i,
\* matched keyword j of it (0: not extracted yet), entry k of self.rules - on to the next
\* _get_existing_alert, or to the end of the job.
RECURSIVE Advance(_, _, _)
Advance(c, mem, t) ==
  IF c.i > Len(c.rules) THEN IdleJob
  ELSE
    LET rule == c.rules[c.i]
        conditions == DictGet(rule, "conditions", << >>)
        target_keywords == DictGet(conditions, "keywords", << >>)
        time_window == DictGet(conditions, "time_window", 60)
        threshold == DictGet(conditions, "threshold", 0)
        NextRule == [c EXCEPT !.i = c.i + 1, !.j = 0, !.k = 0, !.used = 0,
                              !.matched = << >>]
        NextWord == [c EXCEPT !.j = c.j + 1, !.k = 0, !.used = 0]
    IN
    IF c.j = 0 THEN
      \* for rule in rules: ... alert_result = extract_alert_keywords(...)
      IF rule.alert_type # "keyword" \/ ~rule.enabled \/ target_keywords = << >>
        THEN Advance(NextRule, mem, t)
      ELSE Advance([c EXCEPT !.j = 1, !.k = 0, !.used = 0,
                             !.matched =
                               \* an error inside extract_alert_keywords is caught
                               \* there, and the result has no matched keywords
                               IF c.raising = c.i THEN << >>
                               ELSE extract_alert_keywords(c.data, target_keywords,
                                                           time_window, t)],
                   mem, t)
    ELSE IF c.j > Len(c.matched) THEN Advance(NextRule, mem, t)
    ELSE IF ~(c.matched[c.j].count >= threshold) THEN Advance(NextWord, mem, t)
    ELSE
      \* check_keyword_alerts([keyword_data]): for rule in self.rules.values()
      LET word == c.matched[c.j].word
          count == c.matched[c.j].count
          size == IF c.k = 0 THEN Len(mem) ELSE c.used
      IN
      IF Len(mem) # size
        THEN Advance(NextRule, mem, t)   \* RuntimeError: dict changed size; caught per rule
      ELSE IF c.k + 1 > Len(mem) THEN Advance(NextWord, mem, t)
      ELSE
        LET r == mem[c.k + 1]
            r_targets == DictGet(r.conditions, "keywords", << >>)
            r_threshold == DictGet(r.conditions, "threshold", 0)
            r_window == DictGet(r.conditions, "time_window", 60)
            Here == [c EXCEPT !.k = c.k + 1, !.used = size]
        IN
        IF r.alert_type # "keyword" \/ ~r.enabled THEN Advance(Here, mem, t)
        ELSE IF _match_keyword(word, r_targets) /\ count >= r_threshold
          THEN [Here EXCEPT !.pc = "find",
                            !.cur = Some([rule |-> r, keyword |-> word, count |-> count,
                                          threshold |-> r_threshold,
                                          time_window |-> r_window])]
        ELSE Advance(Here, mem, t)

\* A branch that treats every stored alert that is not active as a resolved one.
BranchOnActive(existing) ==
  IF existing # None /\ existing[1].status = "active" THEN "update"
  ELSE IF existing # None THEN "react"
  ELSE "insert"

\* The branch of _check_keyword_rule on what _get_existing_alert returned
Branch(existing) ==
  IF existing # None /\ existing[1].status = "active" THEN "update"
  ELSE IF existing # None /\ existing[1].status = "resolved" THEN "react"
  ELSE IF existing = None THEN "insert"
  ELSE "next"

\* _update_existing_alert: the cached Alert object, if there is one
CacheUpdated(cache, id, count, threshold, t) ==
  IF id \in DOMAIN cache
  THEN [cache EXCEPT ![id].message = << "updated", count, threshold >>,
                     ![id].data.count = count,
                     ![id].data.last_updated = Some(t),
                     ![id].triggered_at = t]
  ELSE cache

\* _reactivate_alert: Alert(..., status=AlertStatus.ACTIVE, ..., resolved_at=None)
ReloadedAlert(doc) == [doc EXCEPT !.status = "active", !.resolved_at = None]

\* What the job reads and does not write.
Surroundings ==
  [news |-> news, rules_collection |-> rules_collection, rules |-> rules, now |-> now]

\* What the job writes, with its own position.
Workspace(j) == [alerts |-> alerts_collection, cache |-> active_alerts, job |-> j]

\* One step of the job: the store answers the call the job awaits at m.job.pc,
\* or (at the "_ok" pcs) the job resumes after a write and runs on to its next
\* store call.
JobStep(m, e) ==
  LET c == m.job
      cur == c.cur[1]
      alert_id == AlertId(cur.rule.id, cur.keyword)
      alert == NewAlert(cur.rule, cur.keyword, cur.count, cur.threshold,
                        cur.time_window, e.now)
      On(j) == Advance([j EXCEPT !.pc = "next", !.cur = None, !.doc = None],
                       e.rules, e.now)
  IN
  CASE c.pc = "data" ->
        \* await db_manager.get_data_for_alert_analysis(time_window=60); if not data: return
        LET data == get_data_for_alert_analysis(e.news, 60, e.now)
        IN IF data = << >> THEN [m EXCEPT !.job = IdleJob]
           ELSE [m EXCEPT !.job.pc = "rules", !.job.data = data]
    [] c.pc = "rules" ->
        \* await alert_system.get_rules(); if not rules: return; for rule in rules: ...
        LET rs == get_rules(e.rules_collection)
        IN IF rs = << >> THEN [m EXCEPT !.job = IdleJob]
           ELSE [m EXCEPT !.job = On([c EXCEPT !.rules = rs, !.i = 1])]
    [] c.pc = "find" ->
        \* await self._get_existing_alert(alert_id), and the branch taken on it
        LET branch == Branch(find_one(m.alerts, alert_id))
        IN IF branch = "next" THEN [m EXCEPT !.job = On(c)]
           ELSE [m EXCEPT !.job.pc = branch]
    [] c.pc = "update" ->
        \* _update_existing_alert: await alerts_collection.update_one($set)
        LET Set(doc) == SetUpdated(cur.count, cur.threshold, cur.time_window, e.now, doc)
        IN [m EXCEPT !.alerts = update_one(m.alerts, alert_id, Set),
                     !.job.pc = "update_ok"]
    [] c.pc = "update_ok" ->
        [m EXCEPT !.cache = CacheUpdated(m.cache, alert_id, cur.count, cur.threshold, e.now),
                  !.job = On(c)]
    [] c.pc = "react" ->
        \* _reactivate_alert: await alerts_collection.update_one($set, $inc)
        LET Set(doc) == SetReactivated(cur.count, cur.threshold, cur.time_window, e.now, doc)
        IN [m EXCEPT !.alerts = update_one(m.alerts, alert_id, Set),
                     !.job.pc = "reload"]
    [] c.pc = "reload" ->
        \* _reactivate_alert: await alerts_collection.find_one({"id": alert_id})
        [m EXCEPT !.job.pc = "reload_ok", !.job.doc = find_one(m.alerts, alert_id)]
    [] c.pc = "reload_ok" ->
        [m EXCEPT !.cache = IF c.doc # None
                            THEN CachePut(m.cache, ReloadedAlert(c.doc[1]))
                            ELSE m.cache,
                  !.job = On(c)]
    [] c.pc = "insert" ->
        \* trigger_alert: await alerts_collection.insert_one(alert_dict); a refused
        \* insert raises, trigger_alert returns False and the cache is left alone
        IF DuplicateKey(m.alerts, alert) THEN [m EXCEPT !.job = On(c)]
        ELSE [m EXCEPT !.alerts = insert_one(m.alerts, alert), !.job.pc = "insert_ok"]
    [] c.pc = "insert_ok" ->
        \* trigger_alert: self.active_alerts[alert.id] = alert
        [m EXCEPT !.cache = CachePut(m.cache, alert), !.job = On(c)]
    [] OTHER -> m

\* The job run from m to its end with nothing else in between.
RECURSIVE RunJob(_, _)
RunJob(m, e) == IF m.job.pc = "idle" THEN m ELSE RunJob(JobStep(m, e), e)

StartedJob == [IdleJob EXCEPT !.pc = "data"]

\* TaskScheduler._check_alerts, from the interval trigger to its return.
_check_alerts ==
  /\ job.pc = "idle"
  /\ api.pc = "idle"
  /\ LET m == RunJob(Workspace(StartedJob), Surroundings)
     IN /\ alerts_collection' = m.alerts
        /\ active_alerts' = m.cache
  /\ api' = IdleApi
  /\ UNCHANGED << engine_call, now, news, rules_collection, rules, job, rule_ops, scheduler >>

\* ------------------------------------------------------- the environment
\* Time passes (between operations).
Tick ==
  /\ job.pc = "idle"
  /\ api.pc = "idle"
  /\ now + 60 <= 60 * MaxTicks
  /\ now' = now + 60
  /\ api' = IdleApi
  /\ UNCHANGED << engine_call, news, rules_collection, alerts_collection, rules, active_alerts, job, rule_ops, scheduler >>

\* What insert_data stores for a collected item: stamped with the clock
Stored(item, t) == [title |-> item.title, content |-> item.content, created_at |-> t]

\* DatabaseManager.insert_data: the collector stores a document
insert_data(item) ==
  /\ job.pc = "idle"
  /\ api.pc = "idle"
  /\ Len(news) < MaxNews
  /\ news' = Append(news, Stored(item, now))
  /\ api' = IdleApi
  /\ UNCHANGED << engine_call, now, rules_collection, alerts_collection, rules, active_alerts, job, rule_ops, scheduler >>

\* ------------------------------------------------------ the admin surface
\* Alert ids a resolve request may name.
AlertIdInputs == IdsOf(alerts_collection) \cup (DOMAIN active_alerts) \cup {UnknownAlertId}

Request(op) == [IdleApi EXCEPT !.op = op]

\* The operator has not resolved this alert MaxReactivations times yet.
MayResolve(alert_id) ==
  \A n \in Matching(alerts_collection, alert_id) :
    alerts_collection[n].data.reactivation_count < MaxReactivations

\* A resolve_alert that removes the record instead of marking it.
ResolveByDelete(coll, alert_id, t) == delete_one(coll, alert_id)

\* resolve_alert: await alerts_collection.update_one({"id": alert_id},
\*   {"$set": {"status": "resolved", "resolved_at": now}})
ResolveInStore(coll, alert_id, t) ==
  LET Set(doc) == SetResolved(t, doc) IN update_one(coll, alert_id, Set)

\* A resolve_alert that leaves the cache entry where it is.
ResolveInCacheKeeps(cache, alert_id) == cache

\* resolve_alert: if alert_id in self.active_alerts: ...; del self.active_alerts[alert_id]
ResolveInCache(cache, alert_id) ==
  IF alert_id \in DOMAIN cache THEN CacheDel(cache, alert_id) ELSE cache

\* resolve_alert returns True unless the store raised, and alert_action answers
\* success: true
ResolveResult == "success"

\* alert_action("resolve") -> AlertSystem.resolve_alert, from request to response
resolve_alert(alert_id) ==
  /\ job.pc = "idle"
  /\ api.pc = "idle"
  /\ MayResolve(alert_id)
  /\ alerts_collection' = ResolveInStore(alerts_collection, alert_id, now)
  /\ active_alerts' = ResolveInCache(active_alerts, alert_id)
  /\ api' = Respond([Request("resolve_alert") EXCEPT !.alert_id = Some(alert_id)],
                    ResolveResult)
  /\ UNCHANGED << engine_call, now, news, rules_collection, rules, job, rule_ops, scheduler >>

\* create_alert_rule -> add_rule: insert_one (a refused insert raises and add_rule
\* returns False), then self.rules[rule.id] = rule
add_rule(rule_id, req) ==
  /\ job.pc = "idle"
  /\ api.pc = "idle"
  /\ rule_ops < MaxRuleOps
  /\ LET rule == AlertRule(rule_id, req, now)
         request == [Request("add_rule") EXCEPT !.rule_id = Some(rule_id),
                                                !.rule = Some(rule)]
     IN IF DuplicateKey(rules_collection, rule)
        THEN /\ api' = Respond(request, "error")
             /\ UNCHANGED << rules_collection, rules >>
        ELSE /\ rules_collection' = insert_one(rules_collection, rule)
             /\ rules' = DictPut(rules, rule)
             /\ api' = Respond(request, "success")
  /\ rule_ops' = rule_ops + 1
  /\ UNCHANGED << engine_call, now, news, alerts_collection, active_alerts, job, scheduler >>

\* update_alert_rule -> update_rule: 404 unless rule_id is in alert_system.rules;
\* the rule keeps the created_at of the cached rule; replace_one, then
\* self.rules[rule.id] = rule
update_rule(rule_id, req) ==
  /\ job.pc = "idle"
  /\ api.pc = "idle"
  /\ rule_ops < MaxRuleOps
  /\ IF rule_id \notin IdsOf(rules)
     THEN /\ api' = Respond([Request("update_rule") EXCEPT !.rule_id = Some(rule_id)],
                            "error")
          /\ UNCHANGED << rules_collection, rules >>
     ELSE LET existing_rule == find_one(rules, rule_id)[1]
              rule == AlertRule(rule_id, req, existing_rule.created_at)
          IN /\ rules_collection' = replace_one(rules_collection, rule_id, rule)
             /\ rules' = DictPut(rules, rule)
             /\ api' = Respond([Request("update_rule") EXCEPT !.rule_id = Some(rule_id),
                                                                !.rule = Some(rule)],
                               "success")
  /\ rule_ops' = rule_ops + 1
  /\ UNCHANGED << engine_call, now, news, alerts_collection, active_alerts, job, scheduler >>

\* delete_alert_rule -> delete_rule: delete_one, then del self.rules[rule_id] if present
delete_rule(rule_id) ==
  /\ job.pc = "idle"
  /\ api.pc = "idle"
  /\ rule_ops < MaxRuleOps
  /\ rules_collection' = delete_one(rules_collection, rule_id)
  /\ rules' = delete_one(rules, rule_id)
  /\ api' = Respond([Request("delete_rule") EXCEPT !.rule_id = Some(rule_id)], "success")
  /\ rule_ops' = rule_ops + 1
  /\ UNCHANGED << engine_call, now, news, alerts_collection, active_alerts, job, scheduler >>

\* --------------------------------------------- the operations, step by step
\* The job and the handlers are coroutines of one event loop: each runs until it
\* awaits the store, and the others run while it waits.

\* The executor's count when a run of the job returns
Released(sched) == [sched EXCEPT !.instances = @ - 1]

\* The job takes the step it is waiting for.
Resume ==
  /\ LET m == JobStep(Workspace(job), Surroundings)
     IN /\ alerts_collection' = m.alerts
        /\ active_alerts' = m.cache
        /\ job' = m.job
        /\ scheduler' = IF m.job.pc = "idle" THEN Released(scheduler) ELSE scheduler
  /\ UNCHANGED << engine_call, now, news, rules_collection, rules, api, rule_ops >>

\* IntervalTrigger(minutes=10), max_instances=1: the timer fires and the
\* executor starts a run of the job, unless max_instances of it are running
StartJob ==
  /\ ~MaxInstancesReached(scheduler.instances)
  /\ job' = StartedJob
  /\ scheduler' = [scheduler EXCEPT !.instances = @ + 1]
  /\ UNCHANGED << engine_call, now, news, rules_collection, alerts_collection, rules, active_alerts,
                  api, rule_ops >>

\* _check_alerts: data = await db_manager.get_data_for_alert_analysis(time_window=60)
GetData ==
  /\ job.pc = "data"
  /\ Resume

\* _check_alerts: rules = await alert_system.get_rules(), and on to the first pair
GetRules ==
  /\ job.pc = "rules"
  /\ Resume

\* _check_keyword_rule: existing_alert = await self._get_existing_alert(alert_id)
GetExistingAlert ==
  /\ job.pc = "find"
  /\ Resume

\* _get_existing_alert: except Exception: ... return None
GetExistingAlertFails ==
  /\ job.pc = "find"
  /\ job' = [job EXCEPT !.pc = Branch(None)]
  /\ UNCHANGED << engine_call, now, news, rules_collection, alerts_collection, rules, active_alerts,
                  api, rule_ops, scheduler >>

\* _update_existing_alert: the store applies the update_one
UpdateExistingAlert ==
  /\ job.pc = "update"
  /\ Resume

\* _update_existing_alert after its await: the cached alert, and on to the next pair
UpdateExistingAlertDone ==
  /\ job.pc = "update_ok"
  /\ Resume

\* _reactivate_alert: the store applies the update_one
ReactivateAlert ==
  /\ job.pc = "react"
  /\ Resume

\* _reactivate_alert: the store answers the find_one
ReactivateAlertReload ==
  /\ job.pc = "reload"
  /\ Resume

\* _reactivate_alert after its awaits: the cache entry, and on to the next pair
ReactivateAlertDone ==
  /\ job.pc = "reload_ok"
  /\ Resume

\* trigger_alert: the store applies or refuses the insert_one
TriggerAlert ==
  /\ job.pc = "insert"
  /\ Resume

\* trigger_alert after its await: the cache entry, and on to the next pair
TriggerAlertDone ==
  /\ job.pc = "insert_ok"
  /\ Resume

\* resolve_alert up to its await: the store applies the update_one
ResolveAlertStore(alert_id) ==
  /\ api.pc = "idle"
  /\ MayResolve(alert_id)
  /\ alerts_collection' = ResolveInStore(alerts_collection, alert_id, now)
  /\ api' = [Request("resolve_alert") EXCEPT !.pc = "resolve_cache",
                                             !.alert_id = Some(alert_id)]
  /\ UNCHANGED << engine_call, now, news, rules_collection, rules, active_alerts, job, rule_ops, scheduler >>

\* resolve_alert after its await: the cache entry goes
ResolveAlertCache ==
  /\ api.pc = "resolve_cache"
  /\ active_alerts' = ResolveInCache(active_alerts, api.alert_id[1])
  /\ api' = Respond(api, ResolveResult)
  /\ UNCHANGED << engine_call, now, news, rules_collection, alerts_collection, rules, job, rule_ops, scheduler >>

\* add_rule up to its await: the store applies or refuses the insert_one
AddRuleStore(rule_id, req) ==
  /\ api.pc = "idle"
  /\ rule_ops < MaxRuleOps
  /\ LET rule == AlertRule(rule_id, req, now)
         request == [Request("add_rule") EXCEPT !.rule_id = Some(rule_id),
                                                !.rule = Some(rule)]
     IN IF DuplicateKey(rules_collection, rule)
        THEN /\ api' = Respond(request, "error")
             /\ UNCHANGED rules_collection
        ELSE /\ rules_collection' = insert_one(rules_collection, rule)
             /\ api' = [request EXCEPT !.pc = "rule_memory"]
  /\ rule_ops' = rule_ops + 1
  /\ UNCHANGED << engine_call, now, news, alerts_collection, rules, active_alerts, job, scheduler >>

\* update_rule up to its await: 404, or the store applies the replace_one
UpdateRuleStore(rule_id, req) ==
  /\ api.pc = "idle"
  /\ rule_ops < MaxRuleOps
  /\ IF rule_id \notin IdsOf(rules)
     THEN /\ api' = Respond(Request("update_rule"), "error")
          /\ UNCHANGED rules_collection
     ELSE LET existing_rule == find_one(rules, rule_id)[1]
              rule == AlertRule(rule_id, req, existing_rule.created_at)
          IN /\ rules_collection' = replace_one(rules_collection, rule_id, rule)
             /\ api' = [Request("update_rule") EXCEPT !.pc = "rule_memory",
                                                      !.rule_id = Some(rule_id),
                                                      !.rule = Some(rule)]
  /\ rule_ops' = rule_ops + 1
  /\ UNCHANGED << engine_call, now, news, alerts_collection, rules, active_alerts, job, scheduler >>

\* add_rule and update_rule after their await: self.rules[rule.id] = rule
RuleMemory ==
  /\ api.pc = "rule_memory"
  /\ rules' = DictPut(rules, api.rule[1])
  /\ api' = Respond(api, "success")
  /\ UNCHANGED << engine_call, now, news, rules_collection, alerts_collection, active_alerts, job,
                  rule_ops, scheduler >>

\* delete_rule up to its await: the store applies the delete_one
DeleteRuleStore(rule_id) ==
  /\ api.pc = "idle"
  /\ rule_ops < MaxRuleOps
  /\ rules_collection' = delete_one(rules_collection, rule_id)
  /\ api' = [Request("delete_rule") EXCEPT !.pc = "rule_forget", !.rule_id = Some(rule_id)]
  /\ rule_ops' = rule_ops + 1
  /\ UNCHANGED << engine_call, now, news, alerts_collection, rules, active_alerts, job, scheduler >>

\* delete_rule after its await: del self.rules[rule_id] if it is there
RuleForget ==
  /\ api.pc = "rule_forget"
  /\ rules' = delete_one(rules, api.rule_id[1])
  /\ api' = Respond(api, "success")
  /\ UNCHANGED << engine_call, now, news, rules_collection, alerts_collection, active_alerts, job,
                  rule_ops, scheduler >>

\* ------------------------------------------------------ the specification
Next ==
  \/ Tick
  \/ \E item \in NewsItems : insert_data(item)
  \/ _check_alerts
  \/ \E alert_id \in AlertIdInputs : resolve_alert(alert_id)
  \/ \E rule_id \in RuleIds, req \in RuleRequests : add_rule(rule_id, req)
  \/ \E rule_id \in RuleIds, req \in RuleRequests : update_rule(rule_id, req)
  \/ \E rule_id \in RuleIds : delete_rule(rule_id)

\* Operations run one at a time, each from its start to its end.
Spec == Init /\ [][Next]_vars

\* Documents the collector has stored before the process starts.
NewsBatches ==
  { [n \in 1..MaxNews |-> Stored(item, 0)] : item \in NewsItems }

\* After AlertSystem.init(), over a store that holds documents already.
InitAsync ==
  /\ now = 0
  /\ news \in NewsBatches
  /\ rules_collection \in InitialRuleStores
  /\ alerts_collection = << >>
  /\ rules = load_rules(rules_collection)
  /\ active_alerts = EmptyCache
  /\ job = IdleJob
  /\ api = IdleApi
  /\ rule_ops = 0
  /\ scheduler = IdleScheduler
  /\ engine_call = IdleCall

NextAsync ==
  \/ StartJob
  \/ GetData
  \/ GetRules
  \/ GetExistingAlert
  \/ GetExistingAlertFails
  \/ UpdateExistingAlert
  \/ UpdateExistingAlertDone
  \/ ReactivateAlert
  \/ ReactivateAlertReload
  \/ ReactivateAlertDone
  \/ TriggerAlert
  \/ TriggerAlertDone
  \/ \E alert_id \in AlertIdInputs : ResolveAlertStore(alert_id)
  \/ ResolveAlertCache
  \/ \E rule_id \in RuleIds, req \in RuleRequests : AddRuleStore(rule_id, req)
  \/ \E rule_id \in RuleIds, req \in RuleRequests : UpdateRuleStore(rule_id, req)
  \/ RuleMemory
  \/ \E rule_id \in RuleIds : DeleteRuleStore(rule_id)
  \/ RuleForget

\* The job and one admin request at a time interleave at their awaits, over the
\* documents of one batch, and the read of the existing alert may fail.
SpecAsync == InitAsync /\ [][NextAsync]_vars

\* --------------------------------------- one rule under a longer clock
\* The clock of this specification runs to two hours.
MaxWindowTicks == 2

\* Keyword rules on "ab" with windows below, at and above the hour
\* (the default rules use 30, 60, 90 and 120 minutes).
WindowRequests ==
  { [name |-> "w", alert_type |-> "keyword", level |-> "medium", enabled |-> TRUE,
     conditions |-> [keywords |-> << << "a", "b" >> >>,
                     threshold |-> threshold, time_window |-> time_window]] :
      threshold \in {1, 2}, time_window \in {30, 60, 120} }

\* After AlertSystem.init(), over a store that holds one such rule.
InitWindow ==
  /\ now = 0
  /\ news = << >>
  /\ rules_collection \in { << AlertRule(<< "r", "1" >>, req, 0) >> : req \in WindowRequests }
  /\ alerts_collection = << >>
  /\ rules = load_rules(rules_collection)
  /\ active_alerts = EmptyCache
  /\ job = IdleJob
  /\ api = IdleApi
  /\ rule_ops = 0
  /\ scheduler = IdleScheduler
  /\ engine_call = IdleCall

TickWindow ==
  /\ job.pc = "idle"
  /\ api.pc = "idle"
  /\ now + 60 <= 60 * MaxWindowTicks
  /\ now' = now + 60
  /\ api' = IdleApi
  /\ UNCHANGED << engine_call, news, rules_collection, alerts_collection, rules, active_alerts, job, rule_ops, scheduler >>

NextWindow ==
  \/ TickWindow
  \/ \E item \in NewsItems : insert_data(item)
  \/ _check_alerts

\* The collector and the cycle alone, with a single rule whose window may be
\* longer than the hour the cycle fetches.
SpecWindow == InitWindow /\ [][NextWindow]_vars

\* ------------------------------------------------ the timer of the job
\* How many runs of the job the scheduler may skip.
MaxSkips == 1

\* IntervalTrigger(minutes=10): the next run time of the job comes
TimerFires ==
  /\ ~scheduler.due
  /\ scheduler.skipped < MaxSkips
  /\ scheduler' = [scheduler EXCEPT !.due = TRUE]
  /\ UNCHANGED << engine_call, now, news, rules_collection, alerts_collection, rules, active_alerts,
                  job, api, rule_ops >>

\* POST /api/scheduler/run/check_alerts -> TaskScheduler.run_job_now:
\* job.modify(next_run_time=datetime.now())
run_job_now ==
  /\ api.pc = "idle"
  /\ scheduler.skipped < MaxSkips
  /\ scheduler' = [scheduler EXCEPT !.due = TRUE]
  /\ api' = Respond(Request("run_job_now"), "success")
  /\ UNCHANGED << engine_call, now, news, rules_collection, alerts_collection, rules, active_alerts,
                  job, rule_ops >>

\* The scheduler processes the due job: the executor starts a run of it, or
\* refuses and the run is skipped; either way the next run time moves on by
\* the interval.
ProcessJobs ==
  /\ scheduler.due
  /\ IF MaxInstancesReached(scheduler.instances)
     THEN /\ scheduler' = [scheduler EXCEPT !.due = FALSE, !.skipped = @ + 1]
          /\ UNCHANGED job
     ELSE /\ scheduler' = [scheduler EXCEPT !.due = FALSE, !.instances = @ + 1]
          /\ job' = StartedJob
  /\ UNCHANGED << engine_call, now, news, rules_collection, alerts_collection, rules, active_alerts,
                  api, rule_ops >>

NextTimer ==
  \/ TimerFires
  \/ run_job_now
  \/ ProcessJobs
  \/ GetData
  \/ GetRules
  \/ GetExistingAlert
  \/ UpdateExistingAlert
  \/ UpdateExistingAlertDone
  \/ ReactivateAlert
  \/ ReactivateAlertReload
  \/ ReactivateAlertDone
  \/ TriggerAlert
  \/ TriggerAlertDone
  \/ \E alert_id \in AlertIdInputs : ResolveAlertStore(alert_id)
  \/ ResolveAlertCache

\* The job under its timer and run-now requests, with resolve requests, all
\* interleaved at their awaits.
SpecTimer == InitAsync /\ [][NextTimer]_vars

\* ------------------------------------------- the alert store failing
\* The awaits of a transition that go to the alert store.
IsStoreOp(pc) == pc \in {"find", "update", "react", "reload", "insert"}

\* The store operations of one transition, by their order in it: the read of
\* the existing alert, the write, and the reload of _reactivate_alert.
StoreOps == 1..3

\* A failure that ends the whole cycle.
FailureEndsJob(j, e) == IdleJob

\* After a store operation raised inside _update_existing_alert,
\* _reactivate_alert or trigger_alert: the except of that function logs it (and
\* trigger_alert returns False), and the loops go on to the next pair.
AfterFailure(j, e) ==
  Advance([j EXCEPT !.pc = "next", !.cur = None, !.doc = None], e.rules, e.now)

\* The step of the job at a store operation that raises.
JobStepFails(m, e) ==
  IF m.job.pc = "find"
    \* _get_existing_alert: except Exception: ... return None
    THEN [m EXCEPT !.job.pc = Branch(None)]
    ELSE [m EXCEPT !.job = AfterFailure(m.job, e)]

\* _check_keyword_rule for the pair the job stands at, up to the next pair or
\* the end of the job; the store operation number `failing` of it raises
\* (0: none does). `started` tells the first step from the later ones.
RECURSIVE RunPair(_, _, _, _)
RunPair(m, e, failing, started) ==
  IF m.job.pc = "idle" \/ (started /\ m.job.pc = "find")
    THEN [ws |-> m, failed |-> FALSE]
  ELSE IF IsStoreOp(m.job.pc) /\ failing = 1
    THEN [ws |-> RunPair(JobStepFails(m, e), e, 0, TRUE).ws, failed |-> TRUE]
  ELSE RunPair(JobStep(m, e), e,
               IF IsStoreOp(m.job.pc) /\ failing > 0 THEN failing - 1 ELSE failing,
               TRUE)

\* The job goes through one pair; the store answers every operation.
_check_keyword_rule ==
  /\ job.pc = "find"
  /\ LET m == RunPair(Workspace(job), Surroundings, 0, FALSE).ws
     IN /\ alerts_collection' = m.alerts
        /\ active_alerts' = m.cache
        /\ job' = m.job
        /\ scheduler' = IF m.job.pc = "idle" THEN Released(scheduler) ELSE scheduler
  /\ UNCHANGED << engine_call, now, news, rules_collection, rules, api, rule_ops >>

\* The job goes through one pair, and one store operation of it raises.
StoreFailure(op) ==
  /\ job.pc = "find"
  /\ LET run == RunPair(Workspace(job), Surroundings, op, FALSE)
         m == run.ws
     IN /\ run.failed
        /\ alerts_collection' = m.alerts
        /\ active_alerts' = m.cache
        /\ job' = m.job
        /\ scheduler' = IF m.job.pc = "idle" THEN Released(scheduler) ELSE scheduler
  /\ UNCHANGED << engine_call, now, news, rules_collection, rules, api, rule_ops >>

\* _check_alerts: rules = await alert_system.get_rules(), and on to the first
\* pair, in a cycle in which extract_alert_keywords raises inside for stored
\* rule number i of the list.
MatchFailure(i) ==
  /\ job.pc = "rules"
  /\ i \in 1..Len(rules_collection)
  /\ LET rule == get_rules(rules_collection)[i]
     IN /\ rule.alert_type = "keyword"
        /\ rule.enabled
        /\ DictGet(DictGet(rule, "conditions", << >>), "keywords", << >>) # << >>
  /\ LET m == JobStep([Workspace(job) EXCEPT !.job.raising = i], Surroundings)
     IN /\ alerts_collection' = m.alerts
        /\ active_alerts' = m.cache
        /\ job' = m.job
        /\ scheduler' = IF m.job.pc = "idle" THEN Released(scheduler) ELSE scheduler
  /\ UNCHANGED << engine_call, now, news, rules_collection, rules, api, rule_ops >>

NextFault ==
  \/ StartJob
  \/ GetData
  \/ GetRules
  \/ \E i \in 1..Len(rules_collection) : MatchFailure(i)
  \/ _check_keyword_rule
  \/ \E op \in StoreOps : StoreFailure(op)
  \/ \E alert_id \in AlertIdInputs : resolve_alert(alert_id)

\* The job pair by pair over a store that may fail, and resolve requests
\* between the cycles.
SpecFault == InitAsync /\ [][NextFault]_vars

\* ------------------------------------------------- the rule requests of the API

\* class AlertType, class AlertLevel: the values the constructors accept
AlertTypes == {"keyword", "sentiment", "volume", "source"}
AlertLevels == {"low", "medium", "high", "critical"}

\* Bodies of POST /api/alert-rules and PUT /api/alert-rules/{rule_id}: the
\* request model types conditions as Dict[str, Any], alert_type and level as str.
\* v1 is complete; v2 has neither threshold nor time_window; v3 has no keywords;
\* v4 and v5 name an alert_type and a level outside the enumerations.
ValidationRequests ==
  { [name |-> "v1", alert_type |-> "keyword", level |-> "high", enabled |-> TRUE,
     conditions |-> [keywords |-> << << "a", "b" >> >>,
                     threshold |-> 2, time_window |-> 60]],
    [name |-> "v2", alert_type |-> "keyword", level |-> "high", enabled |-> TRUE,
     conditions |-> [keywords |-> << << "a", "b" >> >>]],
    [name |-> "v3", alert_type |-> "keyword", level |-> "low", enabled |-> TRUE,
     conditions |-> [threshold |-> 1, time_window |-> 60]],
    [name |-> "v4", alert_type |-> "keywords", level |-> "high", enabled |-> TRUE,
     conditions |-> [keywords |-> << << "a", "b" >> >>,
                     threshold |-> 1, time_window |-> 60]],
    [name |-> "v5", alert_type |-> "keyword", level |-> "urgent", enabled |-> TRUE,
     conditions |-> [keywords |-> << << "a", "b" >> >>,
                     threshold |-> 1, time_window |-> 60]] }

\* AlertType(rule_request.alert_type) or AlertLevel(rule_request.level) raises
\* ValueError, which the handlers answer with status 400.
EnumValueError(req) ==
  req.alert_type \notin AlertTypes \/ req.level \notin AlertLevels

\* POST /api/alert-rules: the rule object is built, then add_rule
create_alert_rule(rule_id, req) ==
  IF EnumValueError(req)
  THEN /\ job.pc = "idle"
       /\ api.pc = "idle"
       /\ rule_ops < MaxRuleOps
       /\ api' = Respond(Request("add_rule"), "invalid")
       /\ rule_ops' = rule_ops + 1
       /\ UNCHANGED << engine_call, now, news, rules_collection, alerts_collection, rules,
                       active_alerts, job, scheduler >>
  ELSE add_rule(rule_id, req)

\* PUT /api/alert-rules/{rule_id}: 404 for an id not in memory, then the rule
\* object is built, then update_rule
update_alert_rule(rule_id, req) ==
  IF rule_id \in IdsOf(rules) /\ EnumValueError(req)
  THEN /\ job.pc = "idle"
       /\ api.pc = "idle"
       /\ rule_ops < MaxRuleOps
       /\ api' = Respond(Request("update_rule"), "invalid")
       /\ rule_ops' = rule_ops + 1
       /\ UNCHANGED << engine_call, now, news, rules_collection, alerts_collection, rules,
                       active_alerts, job, scheduler >>
  ELSE update_rule(rule_id, req)

NextValidation ==
  \/ \E rule_id \in RuleIds, req \in ValidationRequests : create_alert_rule(rule_id, req)
  \/ \E rule_id \in RuleIds, req \in ValidationRequests : update_alert_rule(rule_id, req)
  \/ \E item \in NewsItems : insert_data(item)
  \/ _check_alerts

SpecValidation == Init /\ [][NextValidation]_vars

\* --------------------------------------------- the keyword engine on its own

\* The module-level keyword_engine holds no store and no clock of its own: a
\* call of one of its functions is studied with the rest of the program at rest.
AtRest ==
  /\ now = 0
  /\ news = << >>
  /\ rules_collection = << >>
  /\ alerts_collection = << >>
  /\ rules = << >>
  /\ active_alerts = EmptyCache
  /\ job = IdleJob
  /\ api = IdleApi
  /\ rule_ops = 0
  /\ scheduler = IdleScheduler

\* A call of function op with its arguments, not evaluated yet.
Call(op, args) == [op |-> op, args |-> args, result |-> None]

\* The strings over an alphabet, from length lo to length hi.
Strings(alphabet, lo, hi) == UNION {[1..n -> alphabet] : n \in lo..hi}

\* Document texts and rule patterns handed to the matcher: letters in both
\* cases, a full stop and a line break in texts; letters, the two wildcards and
\* a full stop in patterns.
MaxTextLen == 3
MaxPatternLen == 3
TextAlphabet == {"a", "B", ".", "\n"}
PatternAlphabet == {"a", "b", "*", "?", "."}

InitMatch ==
  /\ AtRest
  /\ \E text \in Strings(TextAlphabet, 0, MaxTextLen),
        pattern \in Strings(PatternAlphabet, 1, MaxPatternLen) :
       engine_call = Call("_match_keyword_pattern", << text, pattern >>)

\* keyword_engine._match_keyword_pattern(text, pattern) returns
MatchKeywordPattern ==
  /\ engine_call.op = "_match_keyword_pattern"
  /\ engine_call.result = None
  /\ engine_call' = [engine_call EXCEPT !.result =
                       Some(_match_keyword_pattern(engine_call.args[1], engine_call.args[2]))]
  /\ UNCHANGED << now, news, rules_collection, alerts_collection, rules, active_alerts,
                  job, api, rule_ops, scheduler >>

NextMatch == MatchKeywordPattern

SpecMatch == InitMatch /\ [][NextMatch]_vars

\* ---------------------------------------------------- keyword extraction

\* Characters of a document, one string each. Ideographs of the range
\* u4e00-u9fff are written by their reading ("shu", "bao", "dao"); "a" is a
\* Latin letter, "," a punctuation mark, " " a space.
Ideographs == {"shu", "bao", "dao"}
Letters == {"a"}
Spaces == {" "}
DocAlphabet == Ideographs \cup Letters \cup {","}

\* self.stop_words, as far as it can be written with these characters: the
\* word bao-dao ("report") of the news vocabulary
stop_words == { << "bao", "dao" >> }

\* re.sub(r'[^\u4e00-\u9fff\w\s]', ' ', text)
CleanText(text) ==
  [n \in 1..Len(text) |->
     IF text[n] \in Ideographs \cup Letters \cup Spaces THEN text[n] ELSE " "]

\* How many characters of the class follow each other from position i on.
RECURSIVE RunLength(_, _, _)
RunLength(text, i, class) ==
  IF i > Len(text) \/ text[i] \notin class THEN 0
  ELSE 1 + RunLength(text, i + 1, class)

\* re.findall(r'[\u4e00-\u9fff]{2,4}', text) from position i on: the matches
\* are taken from left to right, each as long as possible, and do not overlap.
RECURSIVE FindChinese(_, _)
FindChinese(text, i) ==
  IF i > Len(text) THEN << >>
  ELSE LET n == RunLength(text, i, Ideographs)
           take == IF n > 4 THEN 4 ELSE n
       IN IF n >= 2
          THEN << SubSeq(text, i, i + take - 1) >> \o FindChinese(text, i + take)
          ELSE FindChinese(text, i + 1)

\* re.findall(r'[A-Za-z]{3,}', text) from position i on
RECURSIVE FindEnglish(_, _)
FindEnglish(text, i) ==
  IF i > Len(text) THEN << >>
  ELSE LET n == RunLength(text, i, Letters)
       IN IF n >= 3
          THEN << SubSeq(text, i, i + n - 1) >> \o FindEnglish(text, i + n)
          ELSE FindEnglish(text, i + 1)

\* collections.Counter of a list of words
Counter(words) ==
  [w \in {words[n] : n \in 1..Len(words)} |->
     Cardinality({n \in 1..Len(words) : words[n] = w})]

\* _extract_keywords: the list filtered_keywords
FilteredKeywords(raw) ==
  LET text == CleanText(raw)
      keywords == FindChinese(text, 1) \o FindEnglish(text, 1)
  IN SelectSeq(keywords, LAMBDA word : Len(word) >= 2 /\ word \notin stop_words)

\* KeywordAnalysisEngine._extract_keywords
_extract_keywords(raw) == Counter(FilteredKeywords(raw))

\* Texts handed to the extraction.
MaxDocLen == 5

InitExtract ==
  /\ AtRest
  /\ \E text \in Strings(DocAlphabet, 0, MaxDocLen) :
       engine_call = Call("_extract_keywords", << text >>)

\* keyword_engine._extract_keywords(text) returns
ExtractKeywords ==
  /\ engine_call.op = "_extract_keywords"
  /\ engine_call.result = None
  /\ engine_call' = [engine_call EXCEPT !.result =
                       Some(_extract_keywords(engine_call.args[1]))]
  /\ UNCHANGED << now, news, rules_collection, alerts_collection, rules, active_alerts,
                  job, api, rule_ops, scheduler >>

NextExtract == ExtractKeywords

SpecExtract == InitExtract /\ [][NextExtract]_vars

\* ------------------------------------------------------ trending keywords

\* Numbers with a fraction are kept as whole multiples of a unit: a time
\* weight in 1/1680 (so that 0.1 and the steps of 1/168 per hour are whole), a
\* source weight in tenths, a score in 1/16800.
TimeUnit == 1680
SourceUnit == 10
ScoreUnit == TimeUnit * SourceUnit

\* source_weights.get(source_id, source_weights['default']), in tenths
source_weights(source_id) ==
  CASE source_id \in {"xinhua", "peoples"} -> 15
    [] source_id = "cctv" -> 14
    [] source_id = "cls" -> 13
    [] source_id = "wallstreetcn" -> 12
    [] source_id = "jin10" -> 11
    [] OTHER -> 10

\* A created_at of a document: a datetime as the store returns it (naive), or
\* a string: an ISO timestamp without offset, an ISO timestamp with "Z" or an
\* offset, or no timestamp at all; moments are whole hours.
DateTime(hour) == [type |-> "datetime", hour |-> hour]
IsoString(hour) == [type |-> "str", text |-> "iso", hour |-> hour, offset |-> FALSE]
IsoStringZ(hour) == [type |-> "str", text |-> "iso", hour |-> hour, offset |-> TRUE]
JunkString == [type |-> "str", text |-> "junk"]

\* datetime.fromisoformat(created_at.replace('Z', '+00:00')): the moment, aware
\* of its offset if the string names one, or None where it raises ValueError
fromisoformat(s) ==
  IF s.text = "iso" THEN Some([hour |-> s.hour, aware |-> s.offset]) ELSE None

\* extract_trending_keywords: time_weight_factor of one document, in 1/1680.
\* current_time is datetime.now(), naive: subtracting an aware moment from it
\* raises TypeError, and the bare except sets the factor to 1.0 as it does for
\* a string that is no timestamp.
time_weight_factor(item, time_weight, current_time) ==
  IF time_weight /\ "created_at" \in DOMAIN item
  THEN LET created_at == IF item.created_at.type = "str"
                         THEN fromisoformat(item.created_at)
                         ELSE Some([hour |-> item.created_at.hour, aware |-> FALSE])
       IN IF created_at = None \/ created_at[1].aware THEN TimeUnit
          ELSE LET time_diff == current_time - created_at[1].hour
                   decayed == TimeUnit - 10 * time_diff
               IN IF 168 > decayed THEN 168 ELSE decayed
  ELSE TimeUnit

\* A source weight that is applied whatever the source_weight argument says.
SourceWeightAlways(item, source_weight) ==
  source_weights(DictGet(item, "source_id", "default"))

\* extract_trending_keywords: source_weight_factor of one document, in tenths
source_weight_factor(item, source_weight) ==
  IF source_weight
  THEN source_weights(DictGet(item, "source_id", "default"))
  ELSE SourceUnit

\* A trend whose comparisons include the boundaries.
TrendInclusive(score, count) ==
  IF 10 * score >= count * 12 * ScoreUnit THEN "up"
  ELSE IF 10 * score <= count * 8 * ScoreUnit THEN "down"
  ELSE "stable"

\* KeywordAnalysisEngine._calculate_trend, the score in 1/16800
_calculate_trend(score, count) ==
  IF 10 * score > count * 12 * ScoreUnit THEN "up"
  ELSE IF 10 * score < count * 8 * ScoreUnit THEN "down"
  ELSE "stable"

\* f"{title} {content}" of item.get("title", ""), item.get("content", "")
TrendText(item) == DictGet(item, "title", << >>) \o << " " >> \o DictGet(item, "content", << >>)

\* keyword_stats after the first n documents: count and score of every word
RECURSIVE keyword_stats(_, _, _, _, _)
keyword_stats(data, n, time_weight, source_weight, current_time) ==
  IF n = 0 THEN << >>
  ELSE LET stats == keyword_stats(data, n - 1, time_weight, source_weight, current_time)
           item == data[n]
           total_weight == time_weight_factor(item, time_weight, current_time)
                           * source_weight_factor(item, source_weight)
           keywords == _extract_keywords(TrendText(item))
       IN [word \in DOMAIN stats \cup DOMAIN keywords |->
             LET old == IF word \in DOMAIN stats THEN stats[word]
                        ELSE [count |-> 0, score |-> 0]
                 count == IF word \in DOMAIN keywords THEN keywords[word] ELSE 0
             IN [count |-> old.count + count,
                 score |-> old.score + count * total_weight]]

\* The words of keyword_stats in the order the dict got them
RECURSIVE StatsOrder(_, _)
StatsOrder(data, n) ==
  IF n = 0 THEN << >>
  ELSE FirstOccurrences(StatsOrder(data, n - 1) \o FilteredKeywords(TrendText(data[n])))

\* x placed behind every result whose score is not below its own
RECURSIVE InsertByScore(_, _)
InsertByScore(x, s) ==
  IF s = << >> THEN << x >>
  ELSE IF Head(s).score >= x.score
    THEN << Head(s) >> \o InsertByScore(x, Tail(s))
    ELSE << x >> \o s

\* A result list left in the order of the dict.
Unsorted(s) == s

\* keyword_results.sort(key=lambda x: x.score, reverse=True): results of equal
\* score keep their order
RECURSIVE SortByScore(_)
SortByScore(s) ==
  IF s = << >> THEN << >>
  ELSE InsertByScore(s[Len(s)], SortByScore(SubSeq(s, 1, Len(s) - 1)))

\* keyword_results[:limit]
Slice(s, limit) ==
  LET m == IF limit >= 0 THEN limit ELSE Len(s) + limit
  IN SubSeq(s, 1, IF m > Len(s) THEN Len(s) ELSE m)

RECURSIVE SumCounts(_, _)
SumCounts(stats, words) ==
  IF words = << >> THEN 0 ELSE stats[Head(words)].count + SumCounts(stats, Tail(words))

\* KeywordAnalysisEngine.extract_trending_keywords: the TrendingKeywordResult
\* with word, count, trend and score of each KeywordResult
extract_trending_keywords(data, limit, time_weight, source_weight, current_time) ==
  IF data = << >>
  THEN [keywords |-> << >>, total_words |-> 0, unique_words |-> 0, analyzed_items |-> 0]
  ELSE LET stats == keyword_stats(data, Len(data), time_weight, source_weight, current_time)
           words == StatsOrder(data, Len(data))
           keyword_results ==
             [n \in 1..Len(words) |->
                [word |-> words[n],
                 count |-> stats[words[n]].count,
                 trend |-> _calculate_trend(stats[words[n]].score, stats[words[n]].count),
                 score |-> stats[words[n]].score]]
       IN [keywords |-> Slice(SortByScore(keyword_results), limit),
           total_words |-> SumCounts(stats, words),
           unique_words |-> Cardinality(DOMAIN stats),
           analyzed_items |-> Len(data)]

\* dict with one more key
WithKey(d, key, value) ==
  [k \in DOMAIN d \cup {key} |-> IF k = key THEN value ELSE d[k]]

\* The documents of a batch: a title with one of two words and a content that
\* is empty or repeats the first word; with or without source_id; with or
\* without created_at, which is a datetime of age 0 or 84 hours, an ISO string
\* of age 336 hours, or a string that is no timestamp.
CurrentHour == 400
MaxBatch == 2
TrendTexts ==
  { [title |-> title, content |-> content] :
      title \in { << "shu", "bao" >>, << "bao", "shu" >> },
      content \in { << >>, << "shu", "bao" >> } }
TrendSources == { None, Some("xinhua"), Some("wallstreetcn") }
TrendStamps ==
  { None, Some(DateTime(CurrentHour)), Some(DateTime(CurrentHour - 84)),
    Some(IsoString(CurrentHour - 336)), Some(JunkString) }

TrendDocument(text, source, stamp) ==
  LET sourced == IF source = None THEN text ELSE WithKey(text, "source_id", source[1])
  IN IF stamp = None THEN sourced ELSE WithKey(sourced, "created_at", stamp[1])

\* The program adds scores up in double precision, the operators here add
\* them up exactly; the documents are those for which both give the same
\* order and the same comparisons of score with count: a document of
\* wallstreetcn (weight 1.2) has full time weight.
Decayed(stamp) ==
  stamp \in { Some(DateTime(CurrentHour - 84)), Some(IsoString(CurrentHour - 336)) }

TrendDocuments ==
  { TrendDocument(text, source, stamp) :
      text \in TrendTexts,
      << source, stamp >> \in { p \in TrendSources \X TrendStamps :
                                 ~(p[1] = Some("wallstreetcn") /\ Decayed(p[2])) } }

\* limit of the two callers' requests, small enough to cut the list
TrendLimits == {1, 2}

InitTrending ==
  /\ AtRest
  /\ \E data \in UNION {[1..n -> TrendDocuments] : n \in 0..MaxBatch},
        limit \in TrendLimits, time_weight \in BOOLEAN, source_weight \in BOOLEAN :
       engine_call = Call("extract_trending_keywords",
                          << data, limit, time_weight, source_weight, CurrentHour >>)

\* keyword_engine.extract_trending_keywords(data, limit, time_weight,
\* source_weight) returns
ExtractTrendingKeywords ==
  /\ engine_call.op = "extract_trending_keywords"
  /\ engine_call.result = None
  /\ engine_call' = [engine_call EXCEPT !.result =
                       Some(extract_trending_keywords(engine_call.args[1], engine_call.args[2],
                                                      engine_call.args[3], engine_call.args[4],
                                                      engine_call.args[5]))]
  /\ UNCHANGED << now, news, rules_collection, alerts_collection, rules, active_alerts,
                  job, api, rule_ops, scheduler >>

NextTrending == ExtractTrendingKeywords

SpecTrending == InitTrending /\ [][NextTrending]_vars

\* ------------------------------------------------------------ time decay

\* Ages of a document in hours, up to two weeks and a few hours.
MaxAgeHours == 340

\* One document: without created_at, or with a datetime or an ISO string
\* (with or without offset) of some age, or with a string that is no timestamp.
DecayDocuments ==
  { TrendDocument([title |-> << "shu", "bao" >>, content |-> << >>], None, stamp) :
      stamp \in {None, Some(JunkString)}
                \cup {Some(DateTime(CurrentHour - d)) : d \in 0..MaxAgeHours}
                \cup {Some(IsoString(CurrentHour - d)) : d \in 0..MaxAgeHours}
                \cup {Some(IsoStringZ(CurrentHour - d)) : d \in 0..MaxAgeHours} }

InitDecay ==
  /\ AtRest
  /\ \E item \in DecayDocuments, time_weight \in BOOLEAN :
       engine_call = Call("time_weight_factor", << item, time_weight, CurrentHour >>)

\* extract_trending_keywords has computed the time weight of the document
TimeWeightFactor ==
  /\ engine_call.op = "time_weight_factor"
  /\ engine_call.result = None
  /\ engine_call' = [engine_call EXCEPT !.result =
                       Some(time_weight_factor(engine_call.args[1], engine_call.args[2],
                                               engine_call.args[3]))]
  /\ UNCHANGED << now, news, rules_collection, alerts_collection, rules, active_alerts,
                  job, api, rule_ops, scheduler >>

NextDecay == TimeWeightFactor

SpecDecay == InitDecay /\ [][NextDecay]_vars

\* ------------------------------------- a restart over a resolved alert

\* After AlertSystem.init() over a store that holds documents, both rules and
\* an alert of rule r1 that was raised and resolved before the process
\* started: load_active_alerts finds no active alert, the cache is empty.
InitRestart ==
  /\ now = 0
  /\ news \in NewsBatches
  /\ rules_collection = << AlertRule(<< "r", "1" >>, Req("n1"), 0),
                           AlertRule(<< "r", "2" >>, Req("n2"), 0) >>
  /\ alerts_collection =
       << SetResolved(0, NewAlert(rules_collection[1], << "a", "b" >>, 2, 2, 60, 0)) >>
  /\ rules = load_rules(rules_collection)
  /\ active_alerts = EmptyCache
  /\ job = IdleJob
  /\ api = IdleApi
  /\ rule_ops = 0
  /\ scheduler = IdleScheduler
  /\ engine_call = IdleCall

\* resolve_alert up to its await, also for an alert that has been reactivated
\* MaxReactivations times: the store applies the update_one
ResolveReactivatedAlertStore(alert_id) ==
  /\ api.pc = "idle"
  /\ \A n \in Matching(alerts_collection, alert_id) :
       alerts_collection[n].data.reactivation_count <= MaxReactivations
  /\ alerts_collection' = ResolveInStore(alerts_collection, alert_id, now)
  /\ api' = [Request("resolve_alert") EXCEPT !.pc = "resolve_cache",
                                             !.alert_id = Some(alert_id)]
  /\ UNCHANGED << engine_call, now, news, rules_collection, rules, active_alerts, job,
                  rule_ops, scheduler >>

NextRestart ==
  \/ StartJob
  \/ GetData
  \/ GetRules
  \/ GetExistingAlert
  \/ UpdateExistingAlert
  \/ UpdateExistingAlertDone
  \/ ReactivateAlert
  \/ ReactivateAlertReload
  \/ ReactivateAlertDone
  \/ TriggerAlert
  \/ TriggerAlertDone
  \/ \E alert_id \in AlertIdInputs : ResolveReactivatedAlertStore(alert_id)
  \/ ResolveAlertCache

\* Cycles and resolve_alert calls interleave at their awaits after a restart.
SpecRestart == InitRestart /\ [][NextRestart]_vars

\* ------------------------------------------- a store with a suppressed alert

\* AlertStatus.SUPPRESSED: no operation of the program writes this status; a
\* record carries it only when another writer of the store has set it.
Suppressed(doc) == [doc EXCEPT !.status = "suppressed"]

\* After AlertSystem.init() over a store that holds both rules and an alert of
\* rule r2 whose status is suppressed: load_active_alerts reads the active
\* alerts only, the cache is empty.
InitSuppressed ==
  /\ now = 0
  /\ news = << >>
  /\ rules_collection = << AlertRule(<< "r", "1" >>, Req("n1"), 0),
                           AlertRule(<< "r", "2" >>, Req("n2"), 0) >>
  /\ alerts_collection =
       << Suppressed(NewAlert(rules_collection[2], << "a", "b" >>, 1, 1, 30, 0)) >>
  /\ rules = load_rules(rules_collection)
  /\ active_alerts = EmptyCache
  /\ job = IdleJob
  /\ api = IdleApi
  /\ rule_ops = 0
  /\ scheduler = IdleScheduler
  /\ engine_call = IdleCall

NextSuppressed ==
  \/ Tick
  \/ \E item \in NewsItems : insert_data(item)
  \/ _check_alerts
  \/ \E alert_id \in AlertIdInputs : resolve_alert(alert_id)

\* Cycles, documents and resolve requests over a store with a suppressed alert.
SpecSuppressed == InitSuppressed /\ [][NextSuppressed]_vars

\* ------------------------------------- rules without a positive threshold

\* Stored rules whose threshold is 0, missing (conditions.get('threshold', 0))
\* or negative; they share the 60-minute window of the batch.
ZeroThresholdRules ==
  << [id |-> << "r", "1" >>, name |-> "z1", alert_type |-> "keyword", level |-> "high",
      enabled |-> TRUE, created_at |-> 0,
      conditions |-> [keywords |-> << << "a", "b" >>, << "b", "c" >> >>,
                      threshold |-> 0, time_window |-> 60]],
     [id |-> << "r", "2" >>, name |-> "z2", alert_type |-> "keyword", level |-> "low",
      enabled |-> TRUE, created_at |-> 0,
      conditions |-> [keywords |-> << << "b", "c" >> >>, time_window |-> 60]],
     [id |-> << "r", "3" >>, name |-> "z3", alert_type |-> "keyword", level |-> "low",
      enabled |-> TRUE, created_at |-> 0,
      conditions |-> [keywords |-> << << "b", "c" >> >>,
                      threshold |-> 0 - 1, time_window |-> 60]] >>

\* After AlertSystem.init() over a store that holds these rules.
InitZero ==
  /\ now = 0
  /\ news = << >>
  /\ rules_collection = ZeroThresholdRules
  /\ alerts_collection = << >>
  /\ rules = load_rules(rules_collection)
  /\ active_alerts = EmptyCache
  /\ job = IdleJob
  /\ api = IdleApi
  /\ rule_ops = 0
  /\ scheduler = IdleScheduler
  /\ engine_call = IdleCall

\* Cycles, documents and resolve requests over rules without a positive threshold.
SpecZero == InitZero /\ [][NextSuppressed]_vars

\* ------------------------------------------------------- the properties
\* The alerts with a given id, as positions of the store.
Alerts == 1..Len(alerts_collection)

\* C1: in every state reachable by interleaving the job's steps, resolve_alert
\* and the rule requests, failed existence reads included, no two records of the
\* alert store carry the same id.
C1_Identity ==
  \A n \in Alerts, m \in Alerts :
    alerts_collection[n].id = alerts_collection[m].id => n = m

\* The existence read has failed for an alert the store holds, and the job is
\* about to insert a second record with its id.
C1_Witness ==
  /\ job.pc = "insert"
  /\ AlertId(job.cur[1].rule.id, job.cur[1].keyword) \in IdsOf(alerts_collection)

\* C2: in every reachable state every stored alert has resolved_at set exactly
\* when its status is resolved.
C2_ResolvedInvariant ==
  \A n \in Alerts :
    (alerts_collection[n].resolved_at # None) <=> (alerts_collection[n].status = "resolved")

\* One alert was created, resolved and reactivated, another is resolved.
C2_Witness ==
  \E n \in Alerts, m \in Alerts :
    /\ alerts_collection[n].data.reactivation_count = 1
    /\ alerts_collection[n].status = "active"
    /\ alerts_collection[n].resolved_at = None
    /\ alerts_collection[m].status = "resolved"
    /\ alerts_collection[m].resolved_at = Some(now)

Range(s) == {s[n] : n \in 1..Len(s)}

\* The rules a cycle evaluates in both of its halves: stored, enabled keyword
\* rules that the process holds in memory as stored.
EvaluatedRules ==
  {r \in Range(rules_collection) :
     r.enabled /\ r.alert_type = "keyword" /\ r \in Range(rules)}

Patterns(r) == Range(r.conditions.keywords)

\* The tally of the pair (r, k): the stored documents inside r's own time
\* window, ending now, whose text matches k.
Tally(r, k) ==
  Cardinality({n \in 1..Len(news) :
                 /\ news[n].created_at >= now - r.conditions.time_window
                 /\ news[n].created_at <= now
                 /\ _match_keyword_pattern(ItemText(news[n]), k)})

Breaches(r, k) == Tally(r, k) >= r.conditions.threshold

\* The stored alert of an id after the step, as find_one gives it.
After(id) == find_one(alerts_collection', id)

\* C3: a cycle that finds a breaching pair whose alert is resolved leaves that
\* alert active, with resolved_at null, data.count the pair's tally and
\* reactivation_count one above its value before the cycle.
C3_Reactivation ==
  [][_check_alerts =>
       \A n \in Alerts : \A r \in EvaluatedRules : \A k \in Patterns(r) :
         LET before == alerts_collection[n] IN
         (before.id = AlertId(r.id, k) /\ before.status = "resolved" /\ Breaches(r, k))
         => /\ After(before.id) # None
            /\ After(before.id)[1].status = "active"
            /\ After(before.id)[1].resolved_at = None
            /\ After(before.id)[1].data.count = Tally(r, k)
            /\ After(before.id)[1].data.reactivation_count
                 = before.data.reactivation_count + 1]_vars

\* C4: in every cycle, for every evaluated rule r and pattern k of r, the alert
\* of (r, k) is created, updated or reactivated (it is active and triggered now
\* afterwards) if the pair's tally reaches r's threshold, and is left as it was
\* if the tally is below it.
C4_ThresholdBoundary ==
  [][_check_alerts =>
       \A r \in EvaluatedRules : \A k \in Patterns(r) :
         LET id == AlertId(r.id, k) IN
         /\ Breaches(r, k) => /\ After(id) # None
                              /\ After(id)[1].status = "active"
                              /\ After(id)[1].triggered_at = now
         /\ ~Breaches(r, k) => After(id) = find_one(alerts_collection, id)]_vars

\* C5: a cycle in which a pair with an active alert breaches again leaves one
\* record of that id, still active, with reactivation_count unchanged,
\* data.count the pair's tally and triggered_at the time of the cycle.
C5_UpdateInPlace ==
  [][_check_alerts =>
       \A n \in Alerts : \A r \in EvaluatedRules : \A k \in Patterns(r) :
         LET before == alerts_collection[n] IN
         (before.id = AlertId(r.id, k) /\ before.status = "active" /\ Breaches(r, k))
         => /\ Cardinality(Matching(alerts_collection', before.id)) = 1
            /\ alerts_collection'[n].id = before.id
            /\ alerts_collection'[n].status = "active"
            /\ alerts_collection'[n].data.reactivation_count
                 = before.data.reactivation_count
            /\ alerts_collection'[n].data.count = Tally(r, k)
            /\ alerts_collection'[n].triggered_at = now]_vars

\* The pair an alert names does not breach: no evaluated rule with the alert's
\* rule_id has the alert's keyword as a pattern with a tally at its threshold.
NoBreach(alert) ==
  ~ \E r \in EvaluatedRules :
      /\ r.id = alert.rule_id
      /\ alert.data.keyword \in Patterns(r)
      /\ Breaches(r, alert.data.keyword)

\* C6: no cycle moves an alert from active to resolved, a cycle leaves every
\* field of an active alert whose pair does not breach as it was, and a step that
\* makes an alert resolved is a resolve_alert.
C6_NoAutoResolution ==
  [][/\ _check_alerts =>
          \A n \in Alerts :
            alerts_collection[n].status = "active"
            => /\ alerts_collection'[n].status # "resolved"
               /\ NoBreach(alerts_collection[n])
                    => alerts_collection'[n] = alerts_collection[n]
     /\ \A n \in Alerts :
          (alerts_collection[n].status # "resolved"
             /\ alerts_collection'[n].status = "resolved")
          => \E alert_id \in AlertIdInputs : resolve_alert(alert_id)]_vars

\* C7: in every step the reactivation_count of a stored alert does not decrease,
\* it changes only where the alert goes from resolved to active, it grows by
\* exactly one there, and an alert the step creates has reactivation_count 0.
C7_ReactivationCountMonotonic ==
  [][/\ Len(alerts_collection') >= Len(alerts_collection)
     /\ \A n \in Alerts :
          LET before == alerts_collection[n]
              after == alerts_collection'[n]
              reactivated == before.status = "resolved" /\ after.status = "active"
          IN /\ after.id = before.id
             /\ after.data.reactivation_count >= before.data.reactivation_count
             /\ after.data.reactivation_count # before.data.reactivation_count
                  => reactivated
             /\ reactivated
                  => after.data.reactivation_count = before.data.reactivation_count + 1
     /\ \A n \in (1..Len(alerts_collection')) \ Alerts :
          alerts_collection'[n].data.reactivation_count = 0]_vars

\* An alert that was created, resolved, reactivated and then updated while
\* active, next to one that is resolved and was never reactivated.
C7_Witness ==
  \E n \in Alerts, m \in Alerts :
    /\ alerts_collection[n].data.reactivation_count = 1
    /\ alerts_collection[n].status = "active"
    /\ alerts_collection[n].message[1] = "updated"
    /\ alerts_collection[m].data.reactivation_count = 0
    /\ alerts_collection[m].status = "resolved"

\* C8: a cycle in which a pair breaches and no alert of its id exists leaves
\* exactly one alert of that id: active, with data.count the pair's tally,
\* data.threshold and data.time_window the rule's, reactivation_count 0 and
\* resolved_at null.
C8_Creation ==
  [][_check_alerts =>
       \A r \in EvaluatedRules : \A k \in Patterns(r) :
         LET id == AlertId(r.id, k) IN
         (Breaches(r, k) /\ find_one(alerts_collection, id) = None)
         => /\ Cardinality(Matching(alerts_collection', id)) = 1
            /\ After(id)[1].status = "active"
            /\ After(id)[1].data.count = Tally(r, k)
            /\ After(id)[1].data.threshold = r.conditions.threshold
            /\ After(id)[1].data.time_window = r.conditions.time_window
            /\ After(id)[1].data.reactivation_count = 0
            /\ After(id)[1].resolved_at = None]_vars

\* C9: resolve_alert on an id no stored alert carries answers not-found, not
\* success, and leaves the alert store and the cache as they were.
C9_ResolveUnknown ==
  [][\A alert_id \in AlertIdInputs :
       (resolve_alert(alert_id) /\ alert_id \notin IdsOf(alerts_collection))
       => /\ api'.result # "success"
          /\ alerts_collection' = alerts_collection
          /\ active_alerts' = active_alerts]_vars

\* C10: resolve_alert on the id of an active alert makes the stored alert
\* resolved with resolved_at the current time, takes the id out of the cache, and
\* changes no other field of the alert, no other stored alert and no other cache
\* entry.
C10_ResolveActive ==
  [][\A alert_id \in AlertIdInputs :
       (/\ resolve_alert(alert_id)
        /\ find_one(alerts_collection, alert_id) # None
        /\ find_one(alerts_collection, alert_id)[1].status = "active")
       => LET n == FirstMatch(alerts_collection, alert_id)
              before == alerts_collection[n]
              after == alerts_collection'[n]
          IN /\ Len(alerts_collection') = Len(alerts_collection)
             /\ after.status = "resolved"
             /\ after.resolved_at = Some(now)
             /\ [after EXCEPT !.status = before.status,
                              !.resolved_at = before.resolved_at] = before
             /\ \A m \in Alerts \ {n} : alerts_collection'[m] = alerts_collection[m]
             /\ alert_id \notin DOMAIN active_alerts'
             /\ \A x \in (DOMAIN active_alerts) \ {alert_id} :
                  /\ x \in DOMAIN active_alerts'
                  /\ active_alerts'[x] = active_alerts[x]]_vars

\* resolve_alert has just answered: an alert is resolved as of now and out of
\* the cache, and another alert is still active and cached.
C10_Witness ==
  /\ api.op = "resolve_alert"
  /\ \E n \in Alerts, m \in Alerts :
       /\ alerts_collection[n].status = "resolved"
       /\ alerts_collection[n].resolved_at = Some(now)
       /\ alerts_collection[n].data.reactivation_count = 0
       /\ alerts_collection[n].id \notin DOMAIN active_alerts
       /\ alerts_collection[m].status = "active"
       /\ alerts_collection[m].id \in DOMAIN active_alerts

\* The alert identities a cycle run from m takes through its lifecycle step
\* (_get_existing_alert, then update, reactivate or create), in the order taken.
RECURSIVE LifecycleSteps(_, _)
LifecycleSteps(m, e) ==
  IF m.job.pc = "idle" THEN << >>
  ELSE (IF m.job.pc = "find"
        THEN << AlertId(m.job.cur[1].rule.id, m.job.cur[1].keyword) >>
        ELSE << >>) \o LifecycleSteps(JobStep(m, e), e)

NoDuplicates(s) == \A p \in 1..Len(s), q \in 1..Len(s) : s[p] = s[q] => p = q

\* C11: within one run of the cycle the lifecycle step (read the existing alert,
\* then create, update or reactivate) is executed at most once for any alert
\* identity, whatever the rule set.
C11_OncePerCycle ==
  [][_check_alerts => NoDuplicates(LifecycleSteps(Workspace(StartedJob), Surroundings))]_vars

\* The count found under a word in an AlertKeywordResult (0 when absent).
CountOf(matched, word) ==
  IF \E n \in 1..Len(matched) : matched[n].word = word
  THEN matched[CHOOSE n \in 1..Len(matched) : matched[n].word = word].count
  ELSE 0

\* The count of pattern k the cycle compares with the threshold of rule r.
ComparedTally(r, k) ==
  CountOf(extract_alert_keywords(get_data_for_alert_analysis(news, 60, now),
                                 r.conditions.keywords,
                                 r.conditions.time_window, now), k)

\* C12: for every rule r, whatever its time_window (also above 60 minutes), and
\* every pattern k of r, the tally a cycle compares with the threshold is the
\* number of stored documents stamped within [now - r.time_window, now] whose
\* text matches k.
C12_WindowTally ==
  [][_check_alerts =>
       \A r \in EvaluatedRules : \A k \in Patterns(r) :
          ComparedTally(r, k) = Tally(r, k)]_vars

\* C14: at most one execution of the alert-check cycle is in progress at any
\* time; a run of the job that comes due (by the timer or by a run-now request)
\* while a cycle is executing is skipped: the running cycle goes on untouched,
\* no second one starts, and the job is no longer due afterwards (not queued).
C14_NoOverlap ==
  [][/\ scheduler'.instances <= 1
     /\ (ProcessJobs /\ job.pc # "idle")
          => /\ job' = job
             /\ scheduler'.instances = scheduler.instances
             /\ ~scheduler'.due
             /\ scheduler'.skipped = scheduler.skipped + 1]_vars

\* A run of the job came due during a cycle, by a run-now request, and was
\* skipped; the cycle is still executing, alone.
C14_Witness ==
  /\ job.pc \notin {"idle", "data"}
  /\ scheduler.instances = 1
  /\ scheduler.skipped = 1
  /\ ~scheduler.due
  /\ api.op = "run_job_now"

\* No evaluation and no request is in the middle of its steps.
Quiescent == job.pc = "idle" /\ api.pc = "idle"

\* C13: the read, decide and write steps of a transition for one alert identity
\* behave as a single atomic unit: between operations the state is one that
\* atomic transitions leave - one record per identity, and the cache entry of an
\* identity there only while its record is active - so that no write to an
\* identity made while the transition was under way is lost.
C13_AtomicTransition ==
  Quiescent =>
    /\ \A n \in Alerts, m \in Alerts :
         alerts_collection[n].id = alerts_collection[m].id => n = m
    /\ \A id \in DOMAIN active_alerts :
         /\ find_one(alerts_collection, id) # None
         /\ find_one(alerts_collection, id)[1].status = "active"

\* The enabled keyword rules of a rule set: the ones the matching step takes
\* from the store, and the ones the lifecycle step takes from memory.
ActiveKeywordRules(rule_set) ==
  {r \in Range(rule_set) : r.enabled /\ r.alert_type = "keyword"}

\* The stored alerts a step creates or changes, as positions of the store after it.
Touched ==
  {n \in 1..Len(alerts_collection') :
     n > Len(alerts_collection) \/ alerts_collection'[n] # alerts_collection[n]}

\* C15: once add_rule, update_rule or delete_rule has completed, the matching
\* step and the lifecycle step of a cycle work on the same rules, the enabled
\* keyword rules as stored; every alert the next cycle creates or changes
\* belongs to such a rule and carries its stored threshold and time_window with
\* a keyword its stored patterns match; a deleted or disabled rule causes no
\* transition.
C15_RuleMutationsVisible ==
  [][/\ ActiveKeywordRules(get_rules(rules_collection')) = ActiveKeywordRules(rules')
     /\ _check_alerts =>
          \A n \in Touched :
            \E r \in ActiveKeywordRules(rules_collection) :
              /\ alerts_collection'[n].rule_id = r.id
              /\ alerts_collection'[n].data.threshold = r.conditions.threshold
              /\ alerts_collection'[n].data.time_window = r.conditions.time_window
              /\ _match_keyword(alerts_collection'[n].data.keyword,
                                r.conditions.keywords)]_vars

\* A rule request has been served that put rule n3 in place, and a later cycle
\* has raised an alert of that rule under its wildcard pattern.
C15_Witness ==
  /\ rule_ops = 1
  /\ \E r \in ActiveKeywordRules(rules_collection) :
       /\ r.name = "n3"
       /\ r \in Range(rules)
       /\ \E n \in Alerts :
            /\ alerts_collection[n].rule_id = r.id
            /\ alerts_collection[n].rule_name = "n3"
            /\ alerts_collection[n].data.keyword = << "a", "*" >>
            /\ alerts_collection[n].status = "active"

\* C19: no operation of the engine - a cycle, resolve_alert, add_rule,
\* update_rule, delete_rule - removes an alert record: every stored alert id
\* stays stored, once each; and delete_rule leaves the alerts, those of the
\* deleted rule included, exactly as they were.
C19_NeverDeletes ==
  [][/\ IdsOf(alerts_collection) \subseteq IdsOf(alerts_collection')
     /\ Len(alerts_collection') >= Len(alerts_collection)
     /\ \A rule_id \in RuleIds :
          delete_rule(rule_id) => alerts_collection' = alerts_collection]_vars

\* delete_rule has just removed a rule, and an alert of that rule is still stored.
C19_Witness ==
  /\ api.op = "delete_rule"
  /\ api.result = "success"
  /\ \E n \in Alerts :
       /\ alerts_collection[n].rule_id \notin IdsOf(rules_collection)
       /\ alerts_collection[n].rule_id \notin IdsOf(rules)

\* C20: every stored alert, and every cached one, has the id made of its own
\* rule_id, an underscore and its own data.keyword - when it is created and
\* after every update, resolve and reactivation.
C20_IdFormat ==
  /\ \A n \in Alerts :
       alerts_collection[n].id =
         alerts_collection[n].rule_id \o << "_" >> \o alerts_collection[n].data.keyword
  /\ \A id \in DOMAIN active_alerts :
       /\ active_alerts[id].id = id
       /\ id = active_alerts[id].rule_id \o << "_" >> \o active_alerts[id].data.keyword

\* An alert that was created, resolved, reactivated and then updated, and one
\* that was resolved, both under a wildcard-free rule's keyword.
C20_Witness ==
  \E n \in Alerts, m \in Alerts :
    /\ alerts_collection[n].data.reactivation_count = 1
    /\ alerts_collection[n].message[1] = "updated"
    /\ alerts_collection[n].id = << "r", "2", "_", "a", "b" >>
    /\ alerts_collection[m].status = "resolved"
    /\ alerts_collection[m].id = << "r", "1", "_", "a", "b" >>

\* The alert identity of the pair the job stands at.
CurrentAlertId == AlertId(job.cur[1].rule.id, job.cur[1].keyword)

\* The cache entry of an id, if there is one.
CacheEntry(cache, id) == IF id \in DOMAIN cache THEN Some(cache[id]) ELSE None

\* C16: if a store operation of trigger_alert, _update_existing_alert or
\* _reactivate_alert (the write, or the reload after it) fails during the
\* transition of one pair, then after the transition the stored record and the
\* cache entry of that alert identity are exactly as they were before it.
C16_AllOrNothing ==
  [][\A op \in StoreOps \ {1} :
       StoreFailure(op) =>
         /\ find_one(alerts_collection', CurrentAlertId)
              = find_one(alerts_collection, CurrentAlertId)
         /\ CacheEntry(active_alerts', CurrentAlertId)
              = CacheEntry(active_alerts, CurrentAlertId)]_vars

\* C17: an error while one rule is evaluated is caught and the cycle goes on.
\* When the matching of one rule raises, every pair of another enabled rule
\* that breaches has its alert stored and active when the cycle ends. When a
\* store operation raises in the lifecycle step of one rule, every pair of
\* another rule that the cycle has still to evaluate gets its transition
\* applied, and for every alert of another rule the cycle ends with the record
\* and the cache entry that it would have ended with had nothing failed.
C17_FailureIsolation ==
  [][/\ \A i \in 1..Len(rules_collection) :
          MatchFailure(i) =>
            LET failed == get_rules(rules_collection)[i]
                faulty == RunJob([alerts |-> alerts_collection',
                                  cache |-> active_alerts',
                                  job |-> job'], Surroundings)
            IN \A r \in EvaluatedRules \ {failed} : \A k \in Patterns(r) :
                 Breaches(r, k) =>
                   /\ find_one(faulty.alerts, AlertId(r.id, k)) # None
                   /\ find_one(faulty.alerts, AlertId(r.id, k))[1].status = "active"
     /\ \A op \in StoreOps :
       StoreFailure(op) =>
         LET struck == job.cur[1].rule.id
             rest == Tail(LifecycleSteps(Workspace(job), Surroundings))
             normal == RunJob(Workspace(job), Surroundings)
             faulty == RunJob([alerts |-> alerts_collection',
                               cache |-> active_alerts',
                               job |-> job'], Surroundings)
             Others(coll) == {coll[n].id : n \in {x \in 1..Len(coll) :
                                                    coll[x].rule_id # struck}}
         IN /\ Others(faulty.alerts) = Others(normal.alerts)
            /\ \A id \in Others(normal.alerts) :
                 /\ find_one(faulty.alerts, id) = find_one(normal.alerts, id)
                 /\ CacheEntry(faulty.cache, id) = CacheEntry(normal.cache, id)
            /\ \A id \in Range(rest) \cap Others(normal.alerts) :
                 /\ find_one(faulty.alerts, id) # None
                 /\ find_one(faulty.alerts, id)[1].status = "active"]_vars

\* A cycle has ended in which the reload of a reactivation failed - the alert
\* is stored as reactivated and is missing from the cache - and the alert of
\* another rule was updated all the same.
C17_Witness ==
  /\ job.pc = "idle"
  /\ \E n \in Alerts, m \in Alerts :
       /\ alerts_collection[n].status = "active"
       /\ alerts_collection[n].data.reactivation_count = 1
       /\ alerts_collection[n].id \notin DOMAIN active_alerts
       /\ alerts_collection[m].rule_id # alerts_collection[n].rule_id
       /\ alerts_collection[m].status = "active"
       /\ alerts_collection[m].message[1] = "updated"
       /\ alerts_collection[m].id \in DOMAIN active_alerts

\* C18: once a read or a write against the alert store has failed during a
\* cycle, the cycle ends: no further transition is attempted or applied, so the
\* job is over after the transition in which the store failed.
C18_FailureEndsCycle ==
  [][\A op \in StoreOps : StoreFailure(op) => job'.pc = "idle"]_vars

\* C21: every stored alert records a count that is at least the threshold it
\* records, and the threshold an alert gets when a cycle creates, updates or
\* reactivates it is the threshold its rule has in the store at that cycle,
\* also when the rule's threshold or time window was changed between two cycles.
C21_CountInvariant ==
  [][\A n \in 1..Len(alerts_collection') :
       /\ alerts_collection'[n].data.count >= alerts_collection'[n].data.threshold
       /\ (n \in Touched /\ _check_alerts) =>
            \E r \in ActiveKeywordRules(rules_collection) :
              /\ r.id = alerts_collection'[n].rule_id
              /\ r.conditions.threshold = alerts_collection'[n].data.threshold]_vars

\* An alert raised under threshold 1 has been updated by a later cycle after
\* update_rule had put threshold 2 in place.
C21_Witness ==
  /\ rule_ops = 1
  /\ \E n \in Alerts :
       /\ alerts_collection[n].data.threshold = 2
       /\ alerts_collection[n].data.count >= 2
       /\ alerts_collection[n].data.last_updated # None
       /\ alerts_collection[n].rule_name = "n2"

\* C22: add_rule with an id the rule store already holds answers with an error
\* and changes neither the stored rules nor the in-memory rule map, so the rules
\* the next cycle reads from the store and from memory are the ones from before.
C22_DuplicateRuleId ==
  [][\A rule_id \in RuleIds, req \in RuleRequests :
       (add_rule(rule_id, req) /\ rule_id \in IdsOf(rules_collection)) =>
         /\ api'.result = "error"
         /\ rules_collection' = rules_collection
         /\ rules' = rules
         /\ get_rules(rules_collection') = get_rules(rules_collection)]_vars

\* add_rule has been refused for an id in use, the store still holds the two
\* original rules, and a cycle has raised an alert of one of them.
C22_Witness ==
  /\ api.op = "add_rule"
  /\ api.result = "error"
  /\ Len(rules_collection) = 2
  /\ \A n \in 1..Len(rules_collection) : rules_collection[n].created_at = 0
  /\ \E n \in Alerts : alerts_collection[n].rule_name \in {"n1", "n2"}

\* The conditions of a rule are complete: keywords, threshold and time_window
\* are present.
WellFormed(rule) ==
  /\ {"keywords", "threshold", "time_window"} \subseteq DOMAIN rule.conditions
  /\ rule.alert_type \in AlertTypes
  /\ rule.level \in AlertLevels

\* C23: a create or update request with incomplete conditions or with an
\* alert_type or level outside the enumerations is refused, so every rule in the
\* rule store and in the in-memory rule map is well formed.
C23_RuleValidation ==
  \A rule \in Range(rules_collection) \cup Range(rules) : WellFormed(rule)

\* The wildcard pattern from position p on matches text from position t on (a
\* prefix of it): "*" stands for any sequence of characters, "?" for exactly
\* one character, every other character for itself in either case.
RECURSIVE WildcardAt(_, _, _, _)
WildcardAt(pattern, p, text, t) ==
  IF p > Len(pattern) THEN TRUE
  ELSE IF pattern[p] = "*"
    THEN \E n \in 0..(Len(text) - t + 1) : WildcardAt(pattern, p + 1, text, t + n)
    ELSE /\ t <= Len(text)
         /\ pattern[p] = "?" \/ LowerChar(pattern[p]) = LowerChar(text[t])
         /\ WildcardAt(pattern, p + 1, text, t + 1)

\* Some substring of the text matches the wildcard pattern.
WildcardSearch(pattern, text) ==
  \E t \in 1..(Len(text) + 1) : WildcardAt(pattern, 1, text, t)

\* C24: the matcher answers true for a pattern with "*" or "?" exactly when
\* some substring of the text matches the pattern, "*" standing for any
\* sequence of characters and "?" for one character, in either case; for a
\* pattern without wildcards exactly when the pattern occurs in the text in
\* either case.
C24_PatternSemantics ==
  (engine_call.op = "_match_keyword_pattern" /\ engine_call.result # None) =>
    LET text == engine_call.args[1]
        pattern == engine_call.args[2]
    IN engine_call.result[1] =
         IF HasWildcard(pattern) THEN WildcardSearch(pattern, text)
         ELSE Contains(Lower(text), Lower(pattern))

\* The positions where a maximal run of ideographs starts, and the substrings
\* of length 2, 3 and 4 inside the runs, one entry per occurrence.
NGramOccurrences(text) ==
  {<< i, len >> \in (1..Len(text)) \X {2, 3, 4} :
     /\ i + len - 1 <= Len(text)
     /\ \A n \in i..(i + len - 1) : text[n] \in Ideographs}

\* The sliding-window candidates of a text without the stop words, counted.
NGramCounter(text) ==
  LET occurrences == {o \in NGramOccurrences(text) :
                        SubSeq(text, o[1], o[1] + o[2] - 1) \notin stop_words}
      words == {SubSeq(text, o[1], o[1] + o[2] - 1) : o \in occurrences}
  IN [w \in words |->
        Cardinality({o \in occurrences : SubSeq(text, o[1], o[1] + o[2] - 1) = w})]

\* The entries of a counter whose words are made of ideographs.
IdeographWords(counter) ==
  {w \in DOMAIN counter : \A n \in 1..Len(w) : w[n] \in Ideographs}

\* C25: the extraction yields, for every maximal run of ideographs of the
\* cleaned text, every substring of the run of length 2, 3 and 4, counted once
\* per occurrence, without the stop words.
C25_SlidingNGrams ==
  (engine_call.op = "_extract_keywords" /\ engine_call.result # None) =>
    LET counter == engine_call.result[1]
        expected == NGramCounter(CleanText(engine_call.args[1]))
    IN /\ IdeographWords(counter) = DOMAIN expected
       /\ \A w \in DOMAIN expected : counter[w] = expected[w]

\* The call of extract_trending_keywords has returned.
Scored == engine_call.op = "extract_trending_keywords" /\ engine_call.result # None

\* How often the extraction finds the word in one document.
OccurrencesIn(item, word) == Occurrences(FilteredKeywords(TrendText(item)), word)

\* The sum over the first n documents of the occurrences of the word times
\* the weight (1 for a plain count).
RECURSIVE WeightedOccurrences(_, _, _, _)
WeightedOccurrences(data, n, word, weight) ==
  IF n = 0 THEN 0
  ELSE WeightedOccurrences(data, n - 1, word, weight)
       + OccurrencesIn(data[n], word) * weight[n]

\* C26: for every keyword of a scored batch the count is the number of its
\* occurrences over all documents, and the score is the sum over the documents
\* of occurrences times weight, the weight being time decay times source
\* weight, each of them 1 when its flag is false; with both flags false the
\* score equals the count.
C26_WeightedScore ==
  Scored =>
    LET data == engine_call.args[1]
        time_weight == engine_call.args[3]
        source_weight == engine_call.args[4]
        current_time == engine_call.args[5]
        One == [n \in 1..Len(data) |-> 1]
        Weight ==
          [n \in 1..Len(data) |->
             (IF time_weight THEN time_weight_factor(data[n], TRUE, current_time)
              ELSE TimeUnit)
             * (IF source_weight THEN source_weight_factor(data[n], TRUE)
                ELSE SourceUnit)]
        keywords == engine_call.result[1].keywords
    IN \A n \in 1..Len(keywords) :
         /\ keywords[n].count = WeightedOccurrences(data, Len(data), keywords[n].word, One)
         /\ keywords[n].score = WeightedOccurrences(data, Len(data), keywords[n].word, Weight)
         /\ (~time_weight /\ ~source_weight) =>
              keywords[n].score = keywords[n].count * ScoreUnit

\* A batch of two documents has been scored with both flags set: a keyword
\* with three occurrences has a score that differs from its count.
C26_Witness ==
  /\ Scored
  /\ engine_call.args[3] /\ engine_call.args[4]
  /\ Len(engine_call.args[1]) = 2
  /\ \E n \in 1..Len(engine_call.result[1].keywords) :
       LET k == engine_call.result[1].keywords[n]
       IN k.count = 3 /\ k.score # k.count * ScoreUnit

\* The words the extraction finds anywhere in the batch.
DistinctKeywords(data) ==
  UNION {DOMAIN _extract_keywords(TrendText(data[n])) : n \in 1..Len(data)}

\* The number of keyword occurrences in the first n documents, which is the sum
\* of the counts of all distinct keywords.
RECURSIVE TotalOccurrences(_, _)
TotalOccurrences(data, n) ==
  IF n = 0 THEN 0
  ELSE TotalOccurrences(data, n - 1) + Len(FilteredKeywords(TrendText(data[n])))

\* The smaller of two numbers.
Min(a, b) == IF a < b THEN a ELSE b

C28_TrendLabel ==
  Scored =>
    LET keywords == engine_call.result[1].keywords
    IN \A n \in 1..Len(keywords) :
         LET score == keywords[n].score
             count == keywords[n].count
             above == 10 * score > 12 * count * ScoreUnit
             below == 10 * score < 8 * count * ScoreUnit
         IN /\ keywords[n].trend = "up" <=> above
            /\ keywords[n].trend = "down" <=> below
            /\ keywords[n].trend = "stable" <=> (~above /\ ~below)
            /\ (~engine_call.args[3] /\ ~engine_call.args[4]) => keywords[n].trend = "stable"

\* A batch has been scored in which one keyword with two occurrences lies
\* exactly on the upper boundary and is "stable" and another one is "up".
C28_Witness ==
  /\ Scored
  /\ \E n, m \in 1..Len(engine_call.result[1].keywords) :
       LET k == engine_call.result[1].keywords[n]
           u == engine_call.result[1].keywords[m]
       IN /\ k.count = 2
          /\ 10 * k.score = 12 * k.count * ScoreUnit
          /\ k.trend = "stable"
          /\ u.trend = "up"

\* The time weight of a document has been computed with time weighting enabled.
TimeWeighted ==
  /\ engine_call.op = "time_weight_factor"
  /\ engine_call.result # None
  /\ engine_call.args[2]

\* The document has a timestamp that can be read.
Dated(item) ==
  /\ "created_at" \in DOMAIN item
  /\ item.created_at.type = "str" => item.created_at.text = "iso"

\* C29: with time weighting enabled a document of age d hours gets the time
\* weight max(0.1, 1 - d/168): 1 at d = 0, 0.1 at d = 168 and beyond, and an
\* older document never gets more than a younger one; a document without a
\* timestamp or with an unreadable one gets 1.
C29_TimeDecay ==
  TimeWeighted =>
    LET item == engine_call.args[1]
        weight == engine_call.result[1]
    IN IF Dated(item)
       THEN LET d == engine_call.args[3] - item.created_at.hour
                linear == TimeUnit * (168 - d)
                floor == TimeUnit * 168
            IN /\ 168 * 10 * weight = IF 10 * linear > floor THEN 10 * linear ELSE floor
               /\ d = 0 => weight = TimeUnit
               /\ d >= 168 => 10 * weight = TimeUnit
               /\ d > 0 =>
                    time_weight_factor([item EXCEPT !.created_at.hour = @ + 1], TRUE,
                                       engine_call.args[3]) >= weight
       ELSE weight = TimeUnit

\* C30: whenever no cycle and no request is in flight, the ids in the
\* active_alerts cache are exactly the ids of the stored alerts whose status
\* is active, however the cycles and the resolve_alert calls interleaved at
\* their awaits.
C30_CacheConsistency ==
  Quiescent =>
    DOMAIN active_alerts =
      {alerts_collection[n].id : n \in {m \in Alerts : alerts_collection[m].status = "active"}}

\* C31: every alert a cycle creates, updates or reactivates belongs to a rule
\* whose listed patterns include the alert's data.keyword; a pattern listed
\* only by another rule never yields an alert carrying this rule's id.
C31_Attribution ==
  [][\A n \in Touched :
       _check_alerts =>
         \E r \in ActiveKeywordRules(rules_collection) :
           /\ r.id = alerts_collection'[n].rule_id
           /\ alerts_collection'[n].data.keyword \in Patterns(r)]_vars

\* C32: update_rule is refused only for a rule id the rule store does not
\* hold; for a stored rule, one that was disabled when the process started
\* included, the request succeeds and the rule as requested is what the store
\* and the memory give to the next cycle.
C32_UpdateStoredRule ==
  [][\A rule_id \in RuleIds, req \in RuleRequests :
       (update_rule(rule_id, req) /\ rule_id \in IdsOf(rules_collection)) =>
         /\ api'.result = "success"
         /\ \E r \in Range(get_rules(rules_collection')) :
              /\ r.id = rule_id
              /\ r.name = req.name
              /\ r.enabled = req.enabled
              /\ r.conditions = req.conditions
              /\ r \in Range(rules')]_vars

\* C33: resolve_alert acts only on active alerts: called with the id of a
\* stored alert that is not active (already resolved, or suppressed) it leaves
\* every field of every stored alert, status and resolved_at included, as it was.
C33_ResolveOnlyActive ==
  [][\A alert_id \in AlertIdInputs :
       (/\ resolve_alert(alert_id)
        /\ find_one(alerts_collection, alert_id) # None
        /\ find_one(alerts_collection, alert_id)[1].status # "active")
       => alerts_collection' = alerts_collection]_vars

\* C36: a cycle that meets a breaching pair whose stored alert is suppressed
\* changes no field of that alert, stores no second alert under its id and
\* does not put it into the active cache.
C36_SuppressedFrozen ==
  [][_check_alerts =>
       \A n \in Alerts :
         alerts_collection[n].status = "suppressed" =>
           /\ alerts_collection'[n] = alerts_collection[n]
           /\ \A m \in 1..Len(alerts_collection') :
                alerts_collection'[m].id = alerts_collection[n].id => m = n
           /\ alerts_collection[n].id \notin DOMAIN active_alerts']_vars

\* A cycle has run over documents of this minute that breach both rules: it
\* has raised the alert of r1, and the alert of r2 is still the suppressed one
\* and outside the cache.
C36_Witness ==
  /\ \A d \in 1..Len(news) : news[d].created_at = now
  /\ \E n \in Alerts, m \in Alerts :
       /\ alerts_collection[n].id = << "r", "2", "_", "a", "b" >>
       /\ alerts_collection[n].status = "suppressed"
       /\ alerts_collection[n].id \notin DOMAIN active_alerts
       /\ \E r \in EvaluatedRules :
            r.id = << "r", "2" >> /\ Breaches(r, << "a", "b" >>)
       /\ alerts_collection[m].id = << "r", "1", "_", "a", "b" >>
       /\ alerts_collection[m].status = "active"
       /\ alerts_collection[m].triggered_at = now

\* The (rule, pattern) pairs of the stored rules.
StoredPairs ==
  {<< r.id, k >> : r \in {q \in Range(rules_collection) : "keywords" \in DOMAIN q.conditions},
                   k \in UNION {Range(q.conditions.keywords) :
                                  q \in {p \in Range(rules_collection) :
                                           "keywords" \in DOMAIN p.conditions}}}

\* C34: two distinct (rule, keyword) pairs never share one alert record - the
\* id built from a pair belongs to that pair alone, '_' in ids and patterns
\* included - so every alert a cycle creates, updates or reactivates carries
\* the id, the name and the level of the rule whose breach the cycle applied.
C34_InjectiveIdentity ==
  [][/\ \A p \in StoredPairs, q \in StoredPairs :
          AlertId(p[1], p[2]) = AlertId(q[1], q[2]) => p = q
     /\ \A n \in Touched :
          _check_alerts =>
            \E r \in ActiveKeywordRules(rules_collection) :
              /\ alerts_collection'[n].id = AlertId(r.id, alerts_collection'[n].data.keyword)
              /\ alerts_collection'[n].rule_id = r.id
              /\ alerts_collection'[n].rule_name = r.name
              /\ alerts_collection'[n].level = r.level]_vars

\* C35: a pattern that matches no document inside its rule's window causes no
\* transition, whatever the rule's threshold: every alert a cycle creates,
\* updates or reactivates belongs to a stored rule for which the alert's
\* keyword has a tally of at least one, and a cycle that finds no document in
\* its batch leaves the alert store and the cache as they were.
C35_ZeroTally ==
  [][_check_alerts =>
       /\ \A n \in Touched :
            \E r \in ActiveKeywordRules(rules_collection) :
              /\ r.id = alerts_collection'[n].rule_id
              /\ Tally(r, alerts_collection'[n].data.keyword) >= 1
       /\ get_data_for_alert_analysis(news, 60, now) = << >> =>
            /\ alerts_collection' = alerts_collection
            /\ active_alerts' = active_alerts]_vars

====
